---- MODULE Spec2Model ----
(***************************************************************************)
(* Lead scraper: the persistent store (DatabaseManager: businesses and     *)
(* area_progress tables), the admin reset tools and the orchestrator loop  *)
(* that persists scraped batches and marks areas as scraped.               *)
(*                                                                         *)
(* Text values are sequences of one-character strings ("a'" and "e'" stand *)
(* for the accented letters of 'kavarna' and 'cafe'); Python's None and     *)
(* SQL NULL are the token None, which is no text.                          *)
(***************************************************************************)
EXTENDS Integers, Sequences, FiniteSets, TLC

VARIABLES
    businesses,      \* rows of table businesses
    business_seq,    \* AUTOINCREMENT sequence of table businesses
    area_progress,   \* rows of table area_progress
    now,             \* the true (UTC) time, in seconds
    utc_offset,      \* seconds the machine's local clock is ahead of UTC
    last_call,       \* the last operation, its arguments and what it returned
    scraping_sessions,  \* rows of table scraping_sessions
    session_seq,     \* AUTOINCREMENT sequence of table scraping_sessions
    pro              \* the process running scrape_leads_PRO.main: where it
                     \* stands and its local variables

vars == <<businesses, business_seq, area_progress, now, utc_offset, last_call,
          scraping_sessions, session_seq, pro>>

None == <<"None">>

Min(a, b) == IF a < b THEN a ELSE b

-----------------------------------------------------------------------------
(* Text helpers: str.lower, str.replace, str.split/join, slicing, LIKE.    *)

LowerTable ==
    ("A" :> "a") @@ ("B" :> "b") @@ ("C" :> "c") @@ ("F" :> "f") @@
    ("H" :> "h") @@ ("I" :> "i") @@ ("J" :> "j") @@ ("K" :> "k") @@
    ("L" :> "l") @@ ("P" :> "p") @@ ("R" :> "r") @@ ("S" :> "s") @@
    ("U" :> "u") @@ ("V" :> "v")

\* str.lower() on one character (Unicode aware: the accented capitals too)
LowerChar(c) ==
    IF c \in DOMAIN LowerTable THEN LowerTable[c]
    ELSE IF c = "A'" THEN "a'"
    ELSE IF c = "E'" THEN "e'"
    ELSE c

\* SQLite folds case in LIKE for ASCII letters only
LowerAscii(c) == IF c \in DOMAIN LowerTable THEN LowerTable[c] ELSE c

Lower(s) == [i \in 1..Len(s) |-> LowerChar(s[i])]

RECURSIVE Replace(_, _, _)
\* str.replace(pat, rep): leftmost, non-overlapping occurrences
Replace(s, pat, rep) ==
    IF Len(s) < Len(pat) THEN s
    ELSE IF SubSeq(s, 1, Len(pat)) = pat
         THEN rep \o Replace(SubSeq(s, Len(pat) + 1, Len(s)), pat, rep)
         ELSE <<Head(s)>> \o Replace(Tail(s), pat, rep)

RECURSIVE StripLeft(_)
StripLeft(s) == IF s # <<>> /\ Head(s) = " " THEN StripLeft(Tail(s)) ELSE s

RECURSIVE JoinSplit(_)
\* ' '.join(s.split()): runs of blanks become one blank, none at the ends
JoinSplit(s) ==
    LET t == StripLeft(s) IN
    IF t = <<>> THEN <<>>
    ELSE IF Head(t) # " " /\ Tail(t) # <<>> /\ Head(Tail(t)) = " "
         THEN LET rest == JoinSplit(Tail(t)) IN
              IF rest = <<>> THEN <<Head(t)>> ELSE <<Head(t), " ">> \o rest
         ELSE <<Head(t)>> \o JoinSplit(Tail(t))

\* s[:n]
Prefix(s, n) == SubSeq(s, 1, Min(n, Len(s)))

RECURSIVE LikeMatch(_, _)
\* text LIKE pattern: % is any run, _ any one character, ASCII case folded
LikeMatch(pattern, text) ==
    IF pattern = <<>> THEN text = <<>>
    ELSE IF Head(pattern) = "%"
         THEN \/ LikeMatch(Tail(pattern), text)
              \/ text # <<>> /\ LikeMatch(pattern, Tail(text))
    ELSE IF text = <<>> THEN FALSE
    ELSE IF Head(pattern) = "_" THEN LikeMatch(Tail(pattern), Tail(text))
    ELSE /\ LowerAscii(Head(pattern)) = LowerAscii(Head(text))
         /\ LikeMatch(Tail(pattern), Tail(text))

-----------------------------------------------------------------------------
(* DatabaseManager.normalize_name                                          *)

normalize_name(name) ==
    IF name = None \/ name = <<>> THEN <<>>
    ELSE LET n1 == Lower(name)
             n2 == Replace(n1, <<"r","e","s","t","a","u","r","a","c","e">>, <<>>)
             n3 == Replace(n2, <<"r","e","s","t","a","u","r","a","n","t">>, <<>>)
             n4 == Replace(n3, <<"k","a","v","a'","r","n","a">>, <<>>)
             n5 == Replace(n4, <<"c","a","f","e'">>, <<>>)
             n6 == Replace(n5, <<"c","a","f","e">>, <<>>)
             n7 == Replace(n6, <<"&">>, <<>>)
             n8 == Replace(n7, <<"-">>, <<" ">>)
         IN  JoinSplit(n8)

-----------------------------------------------------------------------------
(* Table businesses and the records handed to add_business.                *)

\* the columns the UPDATE of add_business assigns through COALESCE
MergeFields ==
    {"address", "city", "postal_code", "phone", "email", "website",
     "instagram", "facebook", "google_rating", "notes"}

\* the keys add_business reads from the incoming dict
BusinessFields ==
    MergeFields \cup {"business_name", "google_place_id", "niche", "source"}

\* Python truthiness of an optional text: neither None nor ''
Truthy(v) == v # None /\ v # <<>>

\* SQL COALESCE(a, b)
COALESCE(a, b) == IF a # None THEN a ELSE b

\* SELECT id FROM businesses WHERE google_place_id = ?
ByPlaceId(table, google_place_id) ==
    {r.id : r \in {x \in table :
                     /\ x.google_place_id # None
                     /\ x.google_place_id = google_place_id}}

\* SELECT id ... WHERE normalized_name = ? AND (address LIKE ? OR address IS NULL)
\* with the parameter f"%{address[:20]}%"
ByNameAndAddress(table, normalized, address) ==
    {r.id : r \in {x \in table :
                     /\ x.normalized_name = normalized
                     /\ \/ x.address = None
                        \/ LikeMatch(<<"%">> \o Prefix(address, 20) \o <<"%">>,
                                     x.address)}}

\* SELECT id ... WHERE normalized_name = ?
ByName(table, normalized) ==
    {r.id : r \in {x \in table : x.normalized_name = normalized}}

\* fetchone() of a SELECT ... LIMIT 1 without ORDER BY: any one matching id;
\* 0 stands for "no row" (ids start at 1)
FetchOne(ids) == IF ids = {} THEN {0} ELSE ids

\* business_exists falling through from the address lookup to the name alone
business_exists_FallThrough(table, business_name, address, google_place_id) ==
    LET byPid == IF Truthy(google_place_id)
                 THEN ByPlaceId(table, google_place_id) ELSE {}
        normalized == normalize_name(business_name)
        byAddress == IF Truthy(address)
                     THEN ByNameAndAddress(table, normalized, address) ELSE {}
    IN  IF byPid # {} THEN byPid
        ELSE IF normalized = <<>> THEN {0}
        ELSE IF byAddress # {} THEN byAddress
        ELSE FetchOne(ByName(table, normalized))

\* DatabaseManager.business_exists on the given businesses table: the set of
\* values the call may return (0 for None)
business_exists(table, business_name, address, google_place_id) ==
    LET byPid == IF Truthy(google_place_id)
                 THEN ByPlaceId(table, google_place_id) ELSE {}
        normalized == normalize_name(business_name)
    IN  IF byPid # {} THEN byPid
        ELSE IF normalized = <<>> THEN {0}
        ELSE IF Truthy(address)
             THEN FetchOne(ByNameAndAddress(table, normalized, address))
             ELSE FetchOne(ByName(table, normalized))

\* an UPDATE that sets the columns to the incoming values, without COALESCE
MergedRow_Overwrite(row, business) ==
    [f \in DOMAIN row |->
        IF f \in MergeFields THEN business[f]
        ELSE IF f = "scrape_count" THEN row[f] + 1
        ELSE row[f]]

\* an UPDATE with the arguments of COALESCE swapped: the stored value wins
MergedRow_KeepStored(row, business) ==
    [f \in DOMAIN row |->
        IF f \in MergeFields THEN COALESCE(row[f], business[f])
        ELSE IF f = "scrape_count" THEN row[f] + 1
        ELSE row[f]]

\* the UPDATE branch of add_business applied to the matched row
MergedRow(row, business) ==
    [f \in DOMAIN row |->
        IF f \in MergeFields THEN COALESCE(business[f], row[f])
        ELSE IF f = "scrape_count" THEN row[f] + 1
        ELSE row[f]]

\* the INSERT branch of add_business: the new row (scrape_count DEFAULT 1)
NewRow(id, business) ==
    [f \in BusinessFields \cup {"id", "normalized_name", "scrape_count"} |->
        IF f = "id" THEN id
        ELSE IF f = "normalized_name" THEN normalize_name(business["business_name"])
        ELSE IF f = "scrape_count" THEN 1
        ELSE business[f]]

\* the INSERT is refused (sqlite3.IntegrityError): business_name is NOT NULL,
\* google_place_id is UNIQUE (NULLs do not collide)
InsertRefused(table, business) ==
    \/ business["business_name"] = None
    \/ /\ business["google_place_id"] # None
       /\ \E r \in table : r.google_place_id = business["google_place_id"]

\* add_business as a function of the store: <<table', sequence', returned id>>
\* for the lookup result existing_id; returned id 0 stands for a raised error
add_business(table, seq, existing_id, business) ==
    IF existing_id # 0
    THEN LET old == CHOOSE r \in table : r.id = existing_id
         IN  <<(table \ {old}) \cup {MergedRow(old, business)}, seq, existing_id>>
    ELSE IF InsertRefused(table, business)
         THEN <<table, seq, 0>>
         ELSE <<table \cup {NewRow(seq + 1, business)}, seq + 1, seq + 1>>

-----------------------------------------------------------------------------
(* Table area_progress: mark_area_scraped, is_area_scraped, reset_area.    *)

MIN_RESULTS_FOR_COMPLETION == 50

\* timedelta(days=7), in seconds
RescrapeWindow == 604800

\* DatabaseManager._calculate_scrape_quality
_calculate_scrape_quality(businesses_found) ==
    IF businesses_found >= 100 THEN 100
    ELSE IF businesses_found >= 50 THEN 80
    ELSE IF businesses_found >= 20 THEN 50
    ELSE IF businesses_found >= 10 THEN 30
    ELSE 10

\* the rows of `table` the UNIQUE(niche, city, area, keyword) key selects
AreaRows(table, niche, city, area, keyword) ==
    {r \in table : r.niche = niche /\ r.city = city /\ r.area = area
                   /\ r.keyword = keyword}

\* the row mark_area_scraped writes; CURRENT_TIMESTAMP is the UTC time
AreaRow(niche, city, area, keyword, businesses_found, timestamp) ==
    [niche |-> niche, city |-> city, area |-> area, keyword |-> keyword,
     businesses_found |-> businesses_found,
     completed |-> IF businesses_found >= MIN_RESULTS_FOR_COMPLETION THEN 1 ELSE 0,
     quality_score |-> _calculate_scrape_quality(businesses_found),
     last_scraped_at |-> timestamp]

\* a plain INSERT in place of INSERT OR REPLACE
mark_area_scraped_Insert(table, niche, city, area, keyword, businesses_found, timestamp) ==
    table \cup {AreaRow(niche, city, area, keyword, businesses_found, timestamp)}

\* DatabaseManager.mark_area_scraped: INSERT OR REPLACE deletes the row that
\* holds the same unique key, then inserts
mark_area_scraped(table, niche, city, area, keyword, businesses_found, timestamp) ==
    (table \ AreaRows(table, niche, city, area, keyword))
        \cup {AreaRow(niche, city, area, keyword, businesses_found, timestamp)}

\* is_area_scraped without the quality gate: any recent row counts
is_area_scraped_AnyRecentRow(table, niche, city, area, keyword, local_now) ==
    LET rows == AreaRows(table, niche, city, area, keyword) IN
    IF rows = {} THEN FALSE
    ELSE LET result == CHOOSE r \in rows : TRUE IN
         local_now - result.last_scraped_at < RescrapeWindow

\* DatabaseManager.is_area_scraped; local_now is datetime.now(), the naive
\* local time, and last_scraped_at the naive UTC time SQLite stored
is_area_scraped(table, niche, city, area, keyword, local_now) ==
    LET rows == AreaRows(table, niche, city, area, keyword) IN
    IF rows = {} THEN FALSE
    ELSE LET result == CHOOSE r \in rows : TRUE IN
         IF result.completed = 0 THEN FALSE
         ELSE IF result.businesses_found < MIN_RESULTS_FOR_COMPLETION THEN FALSE
         ELSE IF local_now - result.last_scraped_at >= RescrapeWindow THEN FALSE
         ELSE TRUE

\* DatabaseManager.reset_area: area None resets the whole city
reset_area(table, niche, city, area) ==
    IF Truthy(area)
    THEN {r \in table : ~(r.niche = niche /\ r.city = city /\ r.area = area)}
    ELSE {r \in table : ~(r.niche = niche /\ r.city = city)}

\* datetime.now(): the machine's local wall clock
datetime_now == now + utc_offset

\* SQLite CURRENT_TIMESTAMP: UTC
CURRENT_TIMESTAMP == now

\* is_area_scraped as the store answers it in the current state
IsAreaScraped(key) ==
    is_area_scraped(area_progress, key[1], key[2], key[3], key[4], datetime_now)

-----------------------------------------------------------------------------
(* The records a scraper hands over: sample names, addresses, place ids    *)
(* and contact details.                                                    *)

NameRestaurace == <<"R","e","s","t","a","u","r","a","c","e">>
NameCafeSlavia == <<"C","a","f","e"," ","S","l","a","v","i","a">>
NameSLAVIA == <<"S","L","A","V","I","A">>
NameUFleku == <<"U"," ","F","l","e","k","u">>

AddrPraha1 == <<"P","r","a","h","a"," ","1">>
AddrHybernska2 ==
    <<"P","r","a","h","a"," ","1",","," ","H","y","b","e","r","n","s","k","a",
      " ","7","/","2">>
AddrHybernska5 ==
    <<"P","r","a","h","a"," ","1",","," ","H","y","b","e","r","n","s","k","a",
      " ","7","/","5">>
AddrBrno == <<"B","r","n","o">>

PlaceId1 == <<"C","h","I","J","1">>
PlaceId2 == <<"C","h","I","J","2">>

Phone1 == <<"+","4","2","0","1","1","1","1","1","1","1","1","1">>
Phone2 == <<"+","4","2","0","2","2","2","2","2","2","2","2","2">>

\* contact details of a scraped record: nothing found, two different sets,
\* and the empty strings the Google Maps scraper emits for what it did not find
ContactNone == [f \in MergeFields \ {"address"} |-> None]
ContactFull ==
    [f \in MergeFields \ {"address"} |-> IF f = "phone" THEN Phone1 ELSE <<"x">>]
ContactPart ==
    [f \in MergeFields \ {"address"} |->
        IF f = "phone" THEN Phone2
        ELSE IF f \in {"email", "instagram"} THEN None ELSE <<"y">>]
ContactMaps ==
    [f \in MergeFields \ {"address"} |->
        IF f \in {"google_rating", "notes"} THEN <<"z">> ELSE <<>>]

Business(name, address, google_place_id, contact) ==
    [f \in BusinessFields |->
        IF f = "business_name" THEN name
        ELSE IF f = "address" THEN address
        ELSE IF f = "google_place_id" THEN google_place_id
        ELSE IF f = "niche" THEN <<"n">>
        ELSE IF f = "source" THEN <<"g">>
        ELSE contact[f]]

ScrapedRecords ==
    { Business(NameCafeSlavia, AddrHybernska2, None,     ContactFull),
      Business(NameSLAVIA,     AddrPraha1,     None,     ContactPart),
      Business(NameCafeSlavia, AddrHybernska5, PlaceId1, ContactNone),
      Business(NameCafeSlavia, AddrBrno,       None,     ContactMaps),
      Business(NameSLAVIA,     None,           None,     ContactNone),
      Business(NameRestaurace, AddrPraha1,     None,     ContactPart),
      Business(NameUFleku,     <<>>,           PlaceId2, ContactMaps),
      Business(NameUFleku,     AddrBrno,       PlaceId1, ContactFull) }

-----------------------------------------------------------------------------
(* Niches, cities, areas and keywords of the runs, and the clock.          *)

NicheRestaurants == <<"r","e","s","t","a","u","r","a","n","t","s">>
NicheCafes == <<"c","a","f","e","s">>
CityPraha == <<"P","r","a","h","a">>
AreaPraha1 == AddrPraha1
AreaPraha2 == <<"P","r","a","h","a"," ","2">>
KwRestaurace == <<"r","e","s","t","a","u","r","a","c","e">>
KwBistro == <<"b","i","s","t","r","o">>

\* keys (niche, city, area, keyword): the run of scrape_leads_PRO for
\* restaurants in Praha (two keywords per area) and scrape_AUTO's district key
KeyPraha1a == <<NicheRestaurants, CityPraha, AreaPraha1, KwRestaurace>>
KeyPraha1b == <<NicheRestaurants, CityPraha, AreaPraha1, KwBistro>>
KeyPraha2a == <<NicheRestaurants, CityPraha, AreaPraha2, KwRestaurace>>
KeyDistrict == <<NicheRestaurants, AreaPraha1, AreaPraha1, KwRestaurace>>
KeyCafes == <<NicheCafes, CityPraha, AreaPraha1, KwRestaurace>>

Hour == 60 * 60
Day == 24 * Hour

-----------------------------------------------------------------------------
(* Bounds                                                                  *)

MaxAdds == 3           \* calls of add_business the store has taken
MaxBatch == 1          \* records one search returns

-----------------------------------------------------------------------------
(* Operations.                                                             *)

RECURSIVE SumUpdates(_)
SumUpdates(table) ==
    IF table = {} THEN 0
    ELSE LET r == CHOOSE x \in table : TRUE IN
         (r.scrape_count - 1) + SumUpdates(table \ {r})

\* the store stays inside the bound of the model: inserts plus updates
WithinBounds(table, seq) == seq + SumUpdates(table) <= MaxAdds

NoCall == [op |-> "none"]

\* no scrape_leads_PRO.main is running
NotRunning == [pc |-> "off"]

\* one call db.add_business(business)
AddBusiness(business) ==
    \E existing_id \in business_exists(businesses, business["business_name"],
                                       business["address"],
                                       business["google_place_id"]) :
        LET out == add_business(businesses, business_seq, existing_id, business) IN
        /\ WithinBounds(out[1], out[2])
        /\ businesses' = out[1]
        /\ business_seq' = out[2]
        /\ last_call' = [op |-> "add_business", business |-> business,
                         existing_id |-> existing_id, ret |-> out[3]]
        /\ UNCHANGED <<area_progress, now, utc_offset,
                       scraping_sessions, session_seq, pro>>

\* one call db.business_exists(name, address, place_id), as scrape_leads_PRO
\* makes it before add_business
BusinessExists(business_name, address, google_place_id) ==
    \E ret \in business_exists(businesses, business_name, address, google_place_id) :
        /\ last_call' = [op |-> "business_exists", business_name |-> business_name,
                         address |-> address, google_place_id |-> google_place_id,
                         ret |-> ret]
        /\ UNCHANGED <<businesses, business_seq, area_progress, now, utc_offset,
                       scraping_sessions, session_seq, pro>>

\* one call db.mark_area_scraped(niche, city, area, keyword, businesses_found)
MarkAreaScraped(key, businesses_found) ==
    /\ area_progress' = mark_area_scraped(area_progress, key[1], key[2], key[3],
                                          key[4], businesses_found, CURRENT_TIMESTAMP)
    /\ last_call' = [op |-> "mark_area_scraped", key |-> key,
                     businesses_found |-> businesses_found]
    /\ UNCHANGED <<businesses, business_seq, now, utc_offset,
                   scraping_sessions, session_seq, pro>>

\* one call db.reset_area(niche, city, area)
ResetArea(niche, city, area) ==
    /\ area_progress' = reset_area(area_progress, niche, city, area)
    /\ last_call' = [op |-> "reset_area", niche |-> niche, city |-> city,
                     area |-> area]
    /\ UNCHANGED <<businesses, business_seq, now, utc_offset,
                   scraping_sessions, session_seq, pro>>

\* time passes
Tick(t) ==
    /\ t > now
    /\ now' = t
    /\ UNCHANGED <<businesses, business_seq, area_progress, utc_offset, last_call,
                   scraping_sessions, session_seq, pro>>

-----------------------------------------------------------------------------
(* The admin tools.                                                        *)

\* db_tools.py, command reset: asks "Are you sure?" and calls db.reset_area
DbToolsReset(niche, city, area, confirmed) ==
    /\ area_progress' =
          IF confirmed THEN reset_area(area_progress, niche, city, area)
          ELSE area_progress
    /\ last_call' = [op |-> "db_tools_reset", confirmed |-> confirmed]
    /\ UNCHANGED <<businesses, business_seq, now, utc_offset,
                   scraping_sessions, session_seq, pro>>

\* db_admin.py, command reset-city: DELETE FROM area_progress WHERE city = ?
ResetCity(city, confirmed) ==
    /\ area_progress' =
          IF confirmed THEN {r \in area_progress : r.city # city}
          ELSE area_progress
    /\ last_call' = [op |-> "reset_city", confirmed |-> confirmed]
    /\ UNCHANGED <<businesses, business_seq, now, utc_offset,
                   scraping_sessions, session_seq, pro>>

\* a reset-niche that clears the businesses of the niche as well
ResetNiche_WithBusinesses(niche, city, confirmed) ==
    /\ area_progress' =
          IF ~confirmed THEN area_progress
          ELSE IF Truthy(city)
          THEN {r \in area_progress : ~(r.niche = niche /\ r.city = city)}
          ELSE {r \in area_progress : r.niche # niche}
    /\ businesses' =
          IF confirmed THEN {r \in businesses : r.niche # niche} ELSE businesses
    /\ last_call' = [op |-> "reset_niche", confirmed |-> confirmed]
    /\ UNCHANGED <<business_seq, now, utc_offset,
                   scraping_sessions, session_seq, pro>>

\* db_admin.py, command reset-niche: by niche, or by niche and city
ResetNiche(niche, city, confirmed) ==
    /\ area_progress' =
          IF ~confirmed THEN area_progress
          ELSE IF Truthy(city)
          THEN {r \in area_progress : ~(r.niche = niche /\ r.city = city)}
          ELSE {r \in area_progress : r.niche # niche}
    /\ last_call' = [op |-> "reset_niche", confirmed |-> confirmed]
    /\ UNCHANGED <<businesses, business_seq, now, utc_offset,
                   scraping_sessions, session_seq, pro>>

\* db_admin.py, command reset-all: DELETE FROM businesses, scraping_sessions
\* and area_progress (the AUTOINCREMENT sequence is kept)
ResetAll(confirmed) ==
    /\ businesses' = IF confirmed THEN {} ELSE businesses
    /\ area_progress' = IF confirmed THEN {} ELSE area_progress
    /\ scraping_sessions' = IF confirmed THEN {} ELSE scraping_sessions
    /\ last_call' = [op |-> "reset_all", confirmed |-> confirmed]
    /\ UNCHANGED <<business_seq, now, utc_offset, session_seq, pro>>

-----------------------------------------------------------------------------
(* The orchestrators' loop bodies.                                         *)

RECURSIVE AddAll(_, _, _)
\* "for business in businesses: db.add_business(business)": the possible
\* <<table, sequence, completed>>; completed is FALSE when an add raised
AddAll(table, seq, batch) ==
    IF batch = <<>> THEN {<<table, seq, TRUE>>}
    ELSE UNION {
        LET out == add_business(table, seq, existing_id, Head(batch)) IN
        IF out[3] = 0 THEN {<<table, seq, FALSE>>}
        ELSE AddAll(out[1], out[2], Tail(batch))
        : existing_id \in business_exists(table, Head(batch)["business_name"],
                                          Head(batch)["address"],
                                          Head(batch)["google_place_id"]) }

\* "business['niche'] = ...; business['city'] = ..."
Tagged(batch, niche, city) ==
    [i \in 1..Len(batch) |->
        [batch[i] EXCEPT !["niche"] = niche, !["city"] = city]]

\* scrape_leads_PRO.main, one pass of the keyword loop for (area, keyword) of
\* the run --niche niche --location location. `found` is what the search
\* returns; outcome "ok" runs the body to its end, "search_failed" is an
\* exception of the scraper, "killed" is the process dying after the inserts
\* and before mark_area_scraped ("interrupted": a KeyboardInterrupt there),
\* "store_failed" is the store raising at the first call the pass makes of
\* it after the search (sqlite3.OperationalError)
ProIteration(niche, location, area, keyword, force_rescrape, found, outcome) ==
    LET key == <<niche, location, area, keyword>> IN
    IF ~force_rescrape /\ IsAreaScraped(key)
    THEN /\ outcome = "ok"
         /\ found = <<>>
         /\ last_call' = [op |-> "pro_iteration", key |-> key, decision |-> "skip",
                          force |-> force_rescrape, found |-> found, outcome |-> outcome, marked |-> FALSE]
         /\ UNCHANGED <<businesses, business_seq, area_progress, now, utc_offset>>
    ELSE IF outcome = "search_failed"
    THEN /\ found = <<>>
         /\ last_call' = [op |-> "pro_iteration", key |-> key, decision |-> "scrape",
                          force |-> force_rescrape, found |-> found, outcome |-> outcome, marked |-> FALSE]
         /\ UNCHANGED <<businesses, business_seq, area_progress, now, utc_offset>>
    ELSE IF outcome = "store_failed"
    THEN /\ last_call' = [op |-> "pro_iteration", key |-> key, decision |-> "scrape",
                          force |-> force_rescrape, found |-> found, outcome |-> outcome, marked |-> FALSE]
         /\ UNCHANGED <<businesses, business_seq, area_progress, now, utc_offset>>
    ELSE \E res \in AddAll(businesses, business_seq, Tagged(found, niche, location)) :
         LET marked == res[3] /\ outcome = "ok" IN
         /\ WithinBounds(res[1], res[2])
         /\ businesses' = res[1]
         /\ business_seq' = res[2]
         /\ area_progress' =
               IF marked
               THEN mark_area_scraped(area_progress, niche, location, area, keyword,
                                      Len(found), CURRENT_TIMESTAMP)
               ELSE area_progress
         /\ last_call' = [op |-> "pro_iteration", key |-> key, decision |-> "scrape",
                          force |-> force_rescrape, found |-> found, outcome |-> outcome, marked |-> marked]
         /\ UNCHANGED <<now, utc_offset>>

\* scrape_AUTO.scrape_district_full for (niche, district) with the niche's
\* first keyword
AutoDistrict(niche, district, keyword, found, outcome) ==
    LET key == <<niche, district, district, keyword>> IN
    IF IsAreaScraped(key)
    THEN /\ outcome = "ok"
         /\ found = <<>>
         /\ last_call' = [op |-> "auto_district", key |-> key, decision |-> "skip",
                          force |-> FALSE, found |-> found, outcome |-> outcome, marked |-> FALSE]
         /\ UNCHANGED <<businesses, business_seq, area_progress, now, utc_offset,
                        scraping_sessions, session_seq, pro>>
    ELSE IF outcome = "search_failed" \/ found = <<>>
    THEN /\ found = <<>>
         /\ last_call' = [op |-> "auto_district", key |-> key, decision |-> "scrape",
                          force |-> FALSE, found |-> found, outcome |-> outcome, marked |-> FALSE]
         /\ UNCHANGED <<businesses, business_seq, area_progress, now, utc_offset,
                        scraping_sessions, session_seq, pro>>
    ELSE \E res \in AddAll(businesses, business_seq, Tagged(found, niche, district)) :
         LET marked == res[3] /\ outcome = "ok" IN
         /\ WithinBounds(res[1], res[2])
         /\ businesses' = res[1]
         /\ business_seq' = res[2]
         /\ area_progress' =
               IF marked
               THEN mark_area_scraped(area_progress, niche, district, district,
                                      keyword, Len(found), CURRENT_TIMESTAMP)
               ELSE area_progress
         /\ last_call' = [op |-> "auto_district", key |-> key, decision |-> "scrape",
                          force |-> FALSE, found |-> found, outcome |-> outcome, marked |-> marked]
         /\ UNCHANGED <<now, utc_offset, scraping_sessions, session_seq, pro>>

Outcomes == {"ok", "search_failed", "killed"}

\* the lists of at most MaxBatch records over a set of records
Batches(records) == UNION {[1..n -> records] : n \in 0..MaxBatch}

-----------------------------------------------------------------------------
(* Specification of the businesses table: calls of add_business and        *)
(* business_exists on a store that starts empty.                           *)

InitStore ==
    /\ businesses = {}
    /\ business_seq = 0
    /\ area_progress = {}
    /\ now = 0
    /\ utc_offset = 0
    /\ last_call = NoCall
    /\ scraping_sessions = {}
    /\ session_seq = 0
    /\ pro = NotRunning

NextStore ==
    \/ \E business \in ScrapedRecords : AddBusiness(business)
    \/ \E business \in ScrapedRecords :
          BusinessExists(business["business_name"], business["address"],
                         business["google_place_id"])

SpecStore == InitStore /\ [][NextStore]_vars

-----------------------------------------------------------------------------
(* Specification of the progress tracking under a running clock.           *)

ClockKeys == {KeyPraha1a, KeyDistrict}

ClockCounts == {49, 50}

ClockInstants == {0, 6 * Day + 23 * Hour, 7 * Day + 1, 8 * Day}

\* a machine on UTC and one on Prague's winter time (CET)
UtcOffsets == {0, Hour}

\* what a search returns in the runs of this specification
ClockRecords == { Business(NameCafeSlavia, AddrHybernska2, None, ContactFull) }

InitClock ==
    /\ businesses = {}
    /\ business_seq = 0
    /\ area_progress = {}
    /\ now = 0
    /\ utc_offset \in UtcOffsets
    /\ last_call = NoCall
    /\ scraping_sessions = {}
    /\ session_seq = 0
    /\ pro = NotRunning

NextClock ==
    \/ \E n \in ClockCounts : MarkAreaScraped(KeyPraha1a, n)
    \/ MarkAreaScraped(KeyDistrict, MIN_RESULTS_FOR_COMPLETION)
    \/ \E t \in ClockInstants : Tick(t)
    \/ \E area \in {None, AreaPraha1} : ResetArea(NicheRestaurants, CityPraha, area)
    \/ \E force \in BOOLEAN, found \in Batches(ClockRecords),
          outcome \in {"ok", "search_failed"} :
          /\ ProIteration(NicheRestaurants, CityPraha, AreaPraha1, KwRestaurace,
                          force, found, outcome)
          /\ UNCHANGED <<scraping_sessions, session_seq, pro>>
    \/ \E found \in Batches(ClockRecords), outcome \in {"ok", "search_failed"} :
          AutoDistrict(NicheRestaurants, AreaPraha1, KwRestaurace, found, outcome)

SpecClock == InitClock /\ [][NextClock]_vars

-----------------------------------------------------------------------------
(* Specification of mark_area_scraped over the steps of the quality score. *)

MarkKeys == {KeyPraha1a, KeyPraha1b, KeyCafes}

MarkCounts == {0, 9, 10, 12, 19, 20, 49, 50, 99, 100, 101}

NextMark ==
    \/ \E key \in MarkKeys, n \in MarkCounts : MarkAreaScraped(key, n)
    \/ \E t \in {Hour} : Tick(t)

SpecMark == InitStore /\ [][NextMark]_vars

-----------------------------------------------------------------------------
(* Specification of the runs: passes of the orchestrators' loops, killed   *)
(* or not, and the admin tools between them.                               *)

\* what a search returns in these runs
RunRecords ==
    { Business(NameCafeSlavia, AddrHybernska2, None, ContactFull),
      Business(NameSLAVIA,     AddrPraha1,     None, ContactPart),
      Business(NameRestaurace, AddrPraha1,     None, ContactPart) }

NextRun ==
    \/ \E found \in Batches(RunRecords), outcome \in Outcomes :
          /\ ProIteration(NicheRestaurants, CityPraha, AreaPraha1, KwRestaurace,
                          FALSE, found, outcome)
          /\ UNCHANGED <<scraping_sessions, session_seq, pro>>
    \/ \E key \in {KeyPraha1a, KeyDistrict} :
          MarkAreaScraped(key, MIN_RESULTS_FOR_COMPLETION)
    \/ ResetArea(NicheRestaurants, CityPraha, None)
    \/ \E area \in {None, AreaPraha1}, confirmed \in BOOLEAN :
          DbToolsReset(NicheRestaurants, CityPraha, area, confirmed)
    \/ \E confirmed \in BOOLEAN : ResetCity(CityPraha, confirmed)
    \/ \E city \in {None, AreaPraha1}, confirmed \in BOOLEAN :
          ResetNiche(NicheRestaurants, city, confirmed)
    \/ \E confirmed \in BOOLEAN : ResetAll(confirmed)

Spec == InitStore /\ [][NextRun]_vars

-----------------------------------------------------------------------------
(* Properties of the progress tracking.                                    *)

RowsOf(key) == AreaRows(area_progress, key[1], key[2], key[3], key[4])

PassOps == {"pro_iteration", "auto_district"}

\* the step is one pass of an orchestrator's loop (the record of the pass is
\* the last call after it; the clock, which leaves that record alone, stands)
PassStep == last_call'.op \in PassOps /\ now' = now

\* C1: is_area_scraped(key) is true if and only if a row exists for exactly
\* that key, its completed flag is set, its businesses_found is at least 50
\* and the time that actually passed since mark_area_scraped wrote
\* last_scraped_at is less than 7 days (true at 6 days 23 hours, false at
\* 7 days and 1 second).
C1_TrueIffCompletedWithinSevenDays ==
    \A key \in ClockKeys :
        IsAreaScraped(key) <=>
            \E r \in RowsOf(key) :
                /\ r.completed = 1
                /\ r.businesses_found >= 50
                /\ now - r.last_scraped_at < 7 * Day

\* C2: a low-yield scrape never suppresses re-attempts: while the row of a
\* key records fewer than 50 businesses, is_area_scraped is false for the key
\* and a pass of scrape_leads_PRO or scrape_AUTO over the key calls the
\* scraper instead of skipping; only a row that records at least 50 can make
\* the key be skipped again.
C2_LowYieldIsScrapedAgain ==
    /\ [](\A key \in ClockKeys :
            (\E r \in RowsOf(key) : r.businesses_found < 50) => ~IsAreaScraped(key))
    /\ [][\A key \in ClockKeys :
            /\ PassStep
            /\ last_call'.key = key
            /\ \E r \in RowsOf(key) : r.businesses_found < 50
            => last_call'.decision = "scrape"]_vars
    /\ [][\A key \in ClockKeys :
            /\ \E r \in RowsOf(key) : r.businesses_found < 50
            /\ IsAreaScraped(key)'
            => \E r \in RowsOf(key)' : r.businesses_found >= 50]_vars

\* C2 witness: a pass over a key whose row records 49 businesses called the
\* scraper (the search failed, so the row still stands).
C2_Witness ==
    /\ last_call.op \in PassOps
    /\ last_call.decision = "scrape"
    /\ ~last_call.force
    /\ last_call.outcome = "search_failed"
    /\ \E r \in RowsOf(last_call.key) : r.businesses_found = 49
    /\ now > 0

\* C3: after mark_area_scraped with at least 50 businesses the key is skipped
\* by the orchestrator for 7 days and is eligible again once 7 days have
\* passed or as soon as the row is removed: a pass that is not forced skips
\* the key exactly when its row records at least 50 businesses and less than
\* 7 days have passed since it was written.
C3_SkippedForSevenDaysThenEligible ==
    [][\A key \in ClockKeys :
        PassStep /\ last_call'.key = key /\ ~last_call'.force
        => /\ RowsOf(key) = {} => last_call'.decision = "scrape"
           /\ \A r \in RowsOf(key) :
                 r.businesses_found >= 50 =>
                    (last_call'.decision = "skip" <=> now - r.last_scraped_at < 7 * Day)
      ]_vars

\* C4: after mark_area_scraped(key, n) there is exactly one row for the key,
\* holding businesses_found = n, quality_score 100 / 80 / 50 / 30 / 10 for
\* n >= 100 / 50 / 20 / 10 / less, and completed = (n >= 50); a later call
\* replaces these values, no key ever has two rows, and the call leaves the
\* rows of the other keys as they were.
C4_MarkReplacesTheRowOfTheKey ==
    /\ [](last_call.op = "mark_area_scraped" =>
            LET n == last_call.businesses_found
                rows == RowsOf(last_call.key)
            IN  /\ Cardinality(rows) = 1
                /\ \A r \in rows :
                      /\ r.businesses_found = n
                      /\ r.completed = (IF n >= 50 THEN 1 ELSE 0)
                      /\ (n >= 100 => r.quality_score = 100)
                      /\ (n >= 50 /\ n < 100 => r.quality_score = 80)
                      /\ (n >= 20 /\ n < 50 => r.quality_score = 50)
                      /\ (n >= 10 /\ n < 20 => r.quality_score = 30)
                      /\ (n < 10 => r.quality_score = 10))
    /\ [](\A key \in MarkKeys : Cardinality(RowsOf(key)) <= 1)
    /\ [][last_call'.op = "mark_area_scraped" /\ now' = now =>
            \A key \in MarkKeys \ {last_call'.key} : RowsOf(key)' = RowsOf(key)]_vars

\* C4 witness: a second mark of a key, with 12 businesses an hour after the
\* first, while another key holds a completed row.
C4_Witness ==
    /\ last_call.op = "mark_area_scraped"
    /\ last_call.businesses_found = 12
    /\ \E r \in RowsOf(last_call.key) :
          r.quality_score = 30 /\ r.completed = 0 /\ r.last_scraped_at = Hour
    /\ \E key \in MarkKeys \ {last_call.key} :
          \E r \in RowsOf(key) : r.completed = 1 /\ r.last_scraped_at = 0

-----------------------------------------------------------------------------
(* Properties of the businesses table.                                     *)

\* the step is a call of add_business that matched the row `id`
MatchedAdd(id) ==
    /\ last_call'.op = "add_business"
    /\ last_call'.existing_id = id
    /\ businesses' # businesses
    /\ \E r \in businesses : r.id = id

RowOf(table, id) == CHOOSE r \in table : r.id = id

\* C5 as stated: when add_business matches a row, every merged column that
\* was non-null before the call holds the same value after it.
C5_StoredNonNullFieldsNeverOverwritten ==
    [][\A id \in 1..business_seq :
        MatchedAdd(id) =>
            \A f \in MergeFields :
                RowOf(businesses, id)[f] # None =>
                    RowOf(businesses', id)[f] = RowOf(businesses, id)[f]]_vars

\* C5 amended: when add_business matches a row, no merged column that was
\* non-null becomes NULL: each column holds the incoming value when the
\* incoming record has a non-null value for it (last write wins among
\* non-null values) and its old value otherwise.
C5_NonNullIncomingWinsNullKeepsStored ==
    [][\A id \in 1..business_seq :
        MatchedAdd(id) =>
            \A f \in MergeFields :
                /\ RowOf(businesses, id)[f] # None => RowOf(businesses', id)[f] # None
                /\ last_call'.business[f] # None =>
                      RowOf(businesses', id)[f] = last_call'.business[f]
                /\ last_call'.business[f] = None =>
                      RowOf(businesses', id)[f] = RowOf(businesses, id)[f]]_vars

\* C5 witness: a row that took its e-mail from one record ("x", with the
\* first phone number) was matched by a record with the second phone number
\* and no e-mail, and now holds the second phone number.
C5_Witness ==
    /\ last_call.op = "add_business"
    /\ last_call.existing_id # 0
    /\ last_call.business["phone"] = Phone2
    /\ \E r \in businesses :
          /\ r.id = last_call.existing_id
          /\ r.phone = Phone2
          /\ r.email = <<"x">>
          /\ r.scrape_count >= 2

\* C6: when add_business matches a row and the incoming record has None (or
\* no key) for a field, the stored value of the field is unchanged, call
\* after call.
C6_NoneNeverRegressesAField ==
    [][\A id \in 1..business_seq :
        MatchedAdd(id) =>
            \A f \in BusinessFields :
                last_call'.business[f] = None =>
                    RowOf(businesses', id)[f] = RowOf(businesses, id)[f]]_vars

\* C6 witness: a row with phone +420111111111 was matched by a record whose
\* phone is None, and still holds +420111111111.
C6_Witness ==
    /\ last_call.op = "add_business"
    /\ last_call.existing_id # 0
    /\ last_call.business["phone"] = None
    /\ \E r \in businesses :
          r.id = last_call.existing_id /\ r.phone = Phone1 /\ r.scrape_count >= 2

\* the three lookups of business_exists, each on its own
Lookup1(google_place_id) ==
    IF Truthy(google_place_id) THEN ByPlaceId(businesses, google_place_id) ELSE {}

Lookup2(business_name, address) ==
    IF Truthy(address)
    THEN ByNameAndAddress(businesses, normalize_name(business_name), address)
    ELSE {}

Lookup3(business_name) == ByName(businesses, normalize_name(business_name))

\* C7 as stated: business_exists applies the lookups (1) place id, (2) name
\* and address, (3) name alone in this order, falls through to the next when
\* one misses, returns the id of the first hit and none only when all miss.
C7_ThreeLookupsFallingThrough ==
    last_call.op = "business_exists" =>
        LET l1 == Lookup1(last_call.google_place_id)
            l2 == Lookup2(last_call.business_name, last_call.address)
            l3 == Lookup3(last_call.business_name)
        IN  /\ last_call.ret = 0 <=> (l1 = {} /\ l2 = {} /\ l3 = {})
            /\ last_call.ret # 0 =>
                  last_call.ret \in (IF l1 # {} THEN l1 ELSE IF l2 # {} THEN l2 ELSE l3)

\* C7 amended: business_exists returns the hit of (1) the place id when one
\* is given and found; otherwise none when the name normalizes to the empty
\* string; otherwise the result of exactly one lookup: (2) name and address
\* (the stored address contains the first 20 characters of the given one, or
\* is NULL) when an address is given, (3) the name alone when none is given.
\* A miss of (2) does not fall through to (3).
C7_PlaceIdThenOneNameLookup ==
    last_call.op = "business_exists" =>
        LET l1 == Lookup1(last_call.google_place_id)
            l2 == Lookup2(last_call.business_name, last_call.address)
            l3 == Lookup3(last_call.business_name)
            named == normalize_name(last_call.business_name) # <<>>
            expected ==
                IF l1 # {} THEN l1
                ELSE IF ~named THEN {}
                ELSE IF Truthy(last_call.address) THEN l2
                ELSE l3
        IN  /\ last_call.ret = 0 <=> expected = {}
            /\ last_call.ret # 0 => last_call.ret \in expected

\* C7 witness: a call with an address returned none although a row has the
\* same normalized name (lookup (2) missed and (3) was not tried).
C7_Witness ==
    /\ last_call.op = "business_exists"
    /\ last_call.ret = 0
    /\ Truthy(last_call.address)
    /\ Lookup3(last_call.business_name) # {}
    /\ normalize_name(last_call.business_name) # <<>>

\* C9: zero duplicates: the businesses table never holds two rows with the
\* same google_place_id, nor two rows with the same normalized_name and the
\* same address.
C9_NoTwoRowsForOneBusiness ==
    \A r1, r2 \in businesses :
        r1.id # r2.id =>
            /\ ~(r1.google_place_id # None /\ r1.google_place_id = r2.google_place_id)
            /\ ~(r1.normalized_name = r2.normalized_name /\ r1.address = r2.address)

-----------------------------------------------------------------------------
(* Properties of the runs.                                                 *)

\* the step is a pass of scrape_leads_PRO that persisted what it found
PersistingPass ==
    /\ last_call'.op = "pro_iteration"
    /\ last_call'.decision = "scrape"
    /\ last_call'.outcome \in {"ok", "killed"}
    /\ businesses' # businesses \/ area_progress' # area_progress
          \/ last_call' # last_call

\* C8: add_business is an idempotent upsert: a record that matches inserts no
\* row and raises the scrape_count of its row by exactly 1, any other record
\* inserts exactly one row; so a pass that submits the batch of a pass that
\* was killed between the inserts and mark_area_scraped leaves the number of
\* business rows unchanged.
C8_ResubmittingABatchAddsNoRow ==
    /\ [][PersistingPass /\ Len(last_call'.found) = 1 =>
            \/ /\ Cardinality(businesses') = Cardinality(businesses)
               /\ \E r \in businesses :
                     /\ businesses' \ businesses =
                           {MergedRow(r, Tagged(last_call'.found,
                                                last_call'.key[1],
                                                last_call'.key[2])[1])}
                     /\ businesses \ businesses' = {r}
            \/ /\ Cardinality(businesses') = Cardinality(businesses) + 1
               /\ businesses \subseteq businesses'
               /\ business_seq' = business_seq + 1]_vars
    /\ [][/\ last_call.op = "pro_iteration"
          /\ last_call.outcome = "killed"
          /\ PersistingPass
          /\ last_call'.key = last_call.key
          /\ last_call'.found = last_call.found
          => Cardinality(businesses') = Cardinality(businesses)]_vars

\* the operations that reset progress
ResetOps == {"reset_area", "db_tools_reset", "reset_city", "reset_niche", "reset_all"}

\* C10 as stated: no reset operation deletes business records: reset_area
\* and the reset commands of db_tools and db_admin, reset-all included, leave
\* every row of the businesses table in place.
C10_NoResetDeletesBusinesses ==
    [][last_call'.op \in ResetOps => businesses' = businesses]_vars

\* C10 amended: reset_area and the commands reset (db_tools), reset-city and
\* reset-niche (db_admin) delete only area_progress rows and leave every row
\* of businesses in place; the confirmed full reset reset-all of db_admin
\* deletes every row of businesses as well as of area_progress.
C10_OnlyResetAllDeletesBusinesses ==
    [][/\ last_call'.op \in ResetOps \ {"reset_all"} =>
             businesses' = businesses /\ area_progress' \subseteq area_progress
       /\ last_call'.op = "reset_all" =>
             IF last_call'.confirmed
             THEN businesses' = {} /\ area_progress' = {}
             ELSE businesses' = businesses /\ area_progress' = area_progress]_vars

\* C10 witness: a confirmed reset-all has emptied a businesses table that had
\* taken rows before.
C10_Witness ==
    /\ last_call.op = "reset_all"
    /\ last_call.confirmed
    /\ business_seq > 0
    /\ businesses = {}

-----------------------------------------------------------------------------
(* Python values of the in-memory records (dicts) the processors work on.  *)
(* A dict is a function whose DOMAIN is the set of its keys. Text values   *)
(* are sequences as above; the values of the numeric keys carry their type *)
(* (a rating is counted in tenths: 4.8 is PyNum(48)); a list of activities *)
(* is the set of its elements, which is all the code uses of it.           *)

PyNone == [type |-> "NoneType", value |-> 0]

PyNum(n) == [type |-> "number", value |-> n]

\* a string that is no number, such as 'N/A', under a numeric key
PyStr == [type |-> "str", value |-> 0]

NumericKeys == {"google_rating", "website_quality_score"}

\* what raising TypeError leaves in place of a result
TypeError == [raised |-> "TypeError"]

\* d.get(key, default)
Get(d, key, default) == IF key \in DOMAIN d THEN d[key] ELSE default

\* bool(value) of the value under a key
PyTruthy(key, v) ==
    IF key \in NumericKeys THEN (v.type = "number" /\ v.value # 0) \/ v.type = "str"
    ELSE IF key = "business_activities" THEN v # {}
    ELSE Truthy(v)

\* bool(d.get(key))
GetTruthy(d, key) == key \in DOMAIN d /\ PyTruthy(key, d[key])

RECURSIVE StripRight(_)
StripRight(s) ==
    IF s # <<>> /\ s[Len(s)] = " " THEN StripRight(SubSeq(s, 1, Len(s) - 1)) ELSE s

\* str.strip()
Strip(s) == StripRight(StripLeft(s))

-----------------------------------------------------------------------------
(* difflib.SequenceMatcher(None, a, b).ratio(), as Deduplicator uses it    *)
(* (no junk; texts are far shorter than the 200 elements of autojunk).     *)

RECURSIVE RunLength(_, _, _, _, _, _)
\* length of the common run of a[i..ahi] and b[j..bhi]
RunLength(a, i, ahi, b, j, bhi) ==
    IF i <= ahi /\ j <= bhi /\ a[i] = b[j]
    THEN 1 + RunLength(a, i + 1, ahi, b, j + 1, bhi)
    ELSE 0

\* find_longest_match: the longest block, of those the one that starts
\* earliest in a, of those the one that starts earliest in b; <<i, j, size>>
find_longest_match(a, alo, ahi, b, blo, bhi) ==
    LET starts == {p \in (alo..ahi) \X (blo..bhi) : a[p[1]] = b[p[2]]}
        size(p) == RunLength(a, p[1], ahi, b, p[2], bhi)
    IN  IF starts = {} THEN <<alo, blo, 0>>
        ELSE LET best == CHOOSE p \in starts :
                     \A q \in starts :
                         \/ size(p) > size(q)
                         \/ /\ size(p) = size(q)
                            /\ \/ p[1] < q[1]
                               \/ p[1] = q[1] /\ p[2] <= q[2]
             IN  <<best[1], best[2], size(best)>>

RECURSIVE MatchingSize(_, _, _, _, _, _)
\* the sum of the sizes of get_matching_blocks() within a[alo..ahi], b[blo..bhi]
MatchingSize(a, alo, ahi, b, blo, bhi) ==
    IF alo > ahi \/ blo > bhi THEN 0
    ELSE LET m == find_longest_match(a, alo, ahi, b, blo, bhi) IN
         IF m[3] = 0 THEN 0
         ELSE m[3] + MatchingSize(a, alo, m[1] - 1, b, blo, m[2] - 1)
                   + MatchingSize(a, m[1] + m[3], ahi, b, m[2] + m[3], bhi)

\* ratio() >= num / den, the ratio being 2.0 * matches / (len(a) + len(b)),
\* and 1.0 for two empty texts
RatioAtLeast(str1, str2, num, den) ==
    LET total == Len(str1) + Len(str2)
        matches == MatchingSize(str1, 1, Len(str1), str2, 1, Len(str2))
    IN  IF total = 0 THEN num <= den
        ELSE 2 * matches * den >= num * total

-----------------------------------------------------------------------------
(* processors/deduplicator.py: Deduplicator                                *)

\* similarity_threshold, the default 0.9, as numerator and denominator
similarity_threshold == <<9, 10>>

\* a fuzzy rule that decides on the names alone
_find_fuzzy_duplicate_NameOnly(target, batch, start_index) ==
    LET target_name == Strip(Lower(Get(target, "business_name", <<>>)))
        matches(candidate) ==
            LET candidate_name == Strip(Lower(Get(candidate, "business_name", <<>>)))
            IN  /\ candidate_name # <<>>
                /\ RatioAtLeast(target_name, candidate_name,
                                similarity_threshold[1], similarity_threshold[2])
        hits == {j \in start_index..Len(batch) : matches(batch[j])}
    IN  IF target_name = <<>> \/ hits = {} THEN 0
        ELSE CHOOSE j \in hits : \A k \in hits : j <= k

\* _find_fuzzy_duplicate(target, businesses[start_index:], start_index): the
\* index of the first candidate that matches, 0 for None
_find_fuzzy_duplicate(target, batch, start_index) ==
    LET target_name == Strip(Lower(Get(target, "business_name", <<>>)))
        target_address == Strip(Lower(Get(target, "address", <<>>)))
        matches(candidate) ==
            LET candidate_name == Strip(Lower(Get(candidate, "business_name", <<>>)))
                candidate_address == Strip(Lower(Get(candidate, "address", <<>>)))
            IN  /\ candidate_name # <<>>
                /\ RatioAtLeast(target_name, candidate_name,
                                similarity_threshold[1], similarity_threshold[2])
                /\ (target_address # <<>> /\ candidate_address # <<>>)
                      => RatioAtLeast(target_address, candidate_address, 1, 2)
        hits == {j \in start_index..Len(batch) : matches(batch[j])}
    IN  IF target_name = <<>> \/ hits = {} THEN 0
        ELSE CHOOSE j \in hits : \A k \in hits : j <= k

\* sum(1 for v in business.values() if v)
Completeness(business) ==
    Cardinality({k \in DOMAIN business : PyTruthy(k, business[k])})

\* a > b on two values of numeric keys raises TypeError unless both are numbers
Comparable(a, b) == a.type = "number" /\ b.type = "number"

Greater(a, b) == Comparable(a, b) /\ a.value > b.value

\* a merge that copies the more complete record and fills nothing in
_merge_duplicates_BaseOnly(business1, business2) ==
    LET base == IF Completeness(business1) >= Completeness(business2)
                THEN business1 ELSE business2
    IN  [k \in DOMAIN base \cup {"business_activities"} |->
            IF k \in DOMAIN base THEN base[k] ELSE {}]

\* _merge_duplicates(business1, business2)
_merge_duplicates(business1, business2) ==
    LET first == Completeness(business1) >= Completeness(business2)
        base == IF first THEN business1 ELSE business2
        source == IF first THEN business2 ELSE business1
        taken == {k \in DOMAIN source : PyTruthy(k, source[k]) /\ ~GetTruthy(base, k)}
        filled == [k \in DOMAIN base \cup taken |->
                      IF k \in taken THEN source[k] ELSE base[k]]
        \* the higher google_rating
        rated == GetTruthy(source, "google_rating")
        merged_rating == Get(filled, "google_rating", PyNone)
        \* the higher website_quality_score
        scored == "website_quality_score" \in DOMAIN source
        merged_score == Get(filled, "website_quality_score", PyNum(0))
        raises ==
            \/ rated /\ merged_rating # PyNone
                     /\ ~Comparable(source["google_rating"], merged_rating)
            \/ scored /\ ~Comparable(source["website_quality_score"], merged_score)
        higher_rating ==
            rated /\ (merged_rating = PyNone
                         \/ Greater(source["google_rating"], merged_rating))
        higher_score ==
            scored /\ Greater(source["website_quality_score"], merged_score)
        activities == Get(filled, "business_activities", {})
                          \cup Get(source, "business_activities", {})
    IN  IF raises THEN TypeError
        ELSE [k \in DOMAIN filled \cup {"business_activities"} |->
                 IF k = "business_activities" THEN activities
                 ELSE IF k = "google_rating" /\ higher_rating THEN source[k]
                 ELSE IF k = "website_quality_score" /\ higher_score THEN source[k]
                 ELSE filled[k]]

RECURSIVE DeduplicateFrom(_, _, _, _, _, _)
\* the loop of deduplicate from index i on: the list built, unless a merge
\* raised
DeduplicateFrom(batch, i, unique_businesses, seen_icos, seen_phones, processed_indices) ==
    IF i > Len(batch)
    THEN [raised |-> FALSE, unique_businesses |-> unique_businesses]
    ELSE LET business == batch[i]
             ico == Get(business, "ico", <<>>)
             phone == Get(business, "phone", <<>>)
             skipped == \/ i \in processed_indices
                        \/ Truthy(ico) /\ ico \in seen_icos
                        \/ Truthy(phone) /\ phone \in seen_phones
             duplicate_index == _find_fuzzy_duplicate(business, batch, i + 1)
             kept == IF duplicate_index # 0
                     THEN _merge_duplicates(business, batch[duplicate_index])
                     ELSE business
         IN  IF skipped
             THEN DeduplicateFrom(batch, i + 1, unique_businesses, seen_icos,
                                  seen_phones, processed_indices)
             ELSE IF kept = TypeError
             THEN [raised |-> TRUE, unique_businesses |-> <<>>]
             ELSE DeduplicateFrom(
                      batch, i + 1, Append(unique_businesses, kept),
                      IF Truthy(ico) THEN seen_icos \cup {ico} ELSE seen_icos,
                      IF Truthy(phone) THEN seen_phones \cup {phone} ELSE seen_phones,
                      processed_indices \cup
                          (IF duplicate_index # 0 THEN {i, duplicate_index} ELSE {i}))

\* Deduplicator.deduplicate(businesses)
deduplicate(batch) == DeduplicateFrom(batch, 1, <<>>, {}, {}, {})

-----------------------------------------------------------------------------
(* Deduplication of one scraped batch.                                     *)

NameAlfa == <<"A","l","f","a">>
NameALFA == <<"A","L","F","A">>
NameBeta == <<"B","e","t","a">>
NameGama == <<"G","a","m","a">>

\* 'Kavárna Přátelství' and 'kavarna pratelstvi' ("r^" and "i'" stand for the
\* accented r and i)
NameKavarnaPratelstvi ==
    <<"K","a","v","a'","r","n","a"," ","P","r^","a'","t","e","l","s","t","v","i'">>
NameKavarnaPlain ==
    <<"k","a","v","a","r","n","a"," ","p","r","a","t","e","l","s","t","v","i">>

\* 'Praha 1, Hybernská 7' and 'Praha 1, Hybernska7'
AddrHybernska7 ==
    <<"P","r","a","h","a"," ","1",","," ","H","y","b","e","r","n","s","k","a'"," ","7">>
AddrHybernska7Plain ==
    <<"P","r","a","h","a"," ","1",","," ","H","y","b","e","r","n","s","k","a","7">>

Ico1 == <<"2","7","0","8","2","4","4","0">>

\* a record as the scrapers of the pipeline build it
ScrapedLead(name, address, ico, phone, email) ==
    [business_name |-> name, address |-> address, ico |-> ico,
     phone |-> phone, email |-> email]

LeadAlfa == ScrapedLead(NameAlfa, <<>>, <<>>, <<>>, <<"x">>)
LeadALFA == ScrapedLead(NameALFA, <<>>, Ico1, Phone1, <<>>)
                @@ [google_rating |-> PyNum(48)]
LeadBeta == ScrapedLead(NameBeta, AddrPraha1, Ico1, Phone2, <<"y">>)
                @@ [website_quality_score |-> PyNum(60),
                    business_activities |-> {"bistro"}]
LeadGama == ScrapedLead(NameGama, AddrBrno, <<>>, Phone1, <<>>)
                @@ [google_rating |-> PyNone,
                    website_quality_score |-> PyNum(0)]
LeadKavarna == ScrapedLead(NameKavarnaPratelstvi, AddrHybernska7, <<>>, <<>>, <<>>)
LeadKavarnaPlain ==
    ScrapedLead(NameKavarnaPlain, AddrHybernska7Plain, <<>>, <<>>, <<>>)

DedupRecords ==
    {LeadAlfa, LeadALFA, LeadBeta, LeadGama, LeadKavarna, LeadKavarnaPlain}

\* the longest batch handed to deduplicate
MaxDedupBatch == 3

DedupBatches == UNION {[1..n -> DedupRecords] : n \in 0..MaxDedupBatch}

\* one call deduplicator.deduplicate(batch)
Deduplicate(batch) ==
    /\ last_call' = [op |-> "deduplicate", businesses |-> batch,
                     raised |-> deduplicate(batch).raised,
                     ret |-> deduplicate(batch).unique_businesses]
    /\ UNCHANGED <<businesses, business_seq, area_progress, now, utc_offset,
                   scraping_sessions, session_seq, pro>>

\* one call deduplicator._merge_duplicates(business1, business2)
MergeDuplicates(business1, business2) ==
    /\ last_call' = [op |-> "_merge_duplicates", business1 |-> business1,
                     business2 |-> business2,
                     ret |-> _merge_duplicates(business1, business2)]
    /\ UNCHANGED <<businesses, business_seq, area_progress, now, utc_offset,
                   scraping_sessions, session_seq, pro>>

\* the result of a call depends on its arguments alone: a behaviour makes one
NextDedup ==
    \/ /\ last_call = NoCall
       /\ \E batch \in DedupBatches : Deduplicate(batch)
    \/ /\ last_call = NoCall
       /\ \E business1, business2 \in DedupRecords :
             MergeDuplicates(business1, business2)

SpecDedup == InitStore /\ [][NextDedup]_vars

-----------------------------------------------------------------------------
(* Properties of the deduplicator.                                         *)

\* the call is a deduplicate that returned a list
Deduplicated == last_call.op = "deduplicate" /\ ~last_call.raised

\* two records of a batch are matched as duplicates: by company ID, by phone
\* or by fuzzy name
SameIco(a, b) == GetTruthy(a, "ico") /\ Get(b, "ico", <<>>) = a["ico"]

SamePhone(a, b) == GetTruthy(a, "phone") /\ Get(b, "phone", <<>>) = a["phone"]

FuzzyMatch(a, b) == _find_fuzzy_duplicate(a, <<b>>, 1) # 0

MatchedAsDuplicates(a, b) == SameIco(a, b) \/ SamePhone(a, b) \/ FuzzyMatch(a, b)

\* the keys with a non-empty value in the record
NonEmptyKeys(business) == {k \in DOMAIN business : PyTruthy(k, business[k])}

\* C11: in the batch deduplicate returns, every two records of the input
\* matched as duplicates (by company ID, by phone or by fuzzy name) are
\* represented by one surviving record in which every field that is
\* non-empty in one of them is non-empty.
C11_SurvivorCarriesTheFieldsOfItsGroup ==
    Deduplicated =>
        \A i, j \in 1..Len(last_call.businesses) :
            (i < j /\ MatchedAsDuplicates(last_call.businesses[i],
                                          last_call.businesses[j])) =>
                \E u \in 1..Len(last_call.ret) :
                    NonEmptyKeys(last_call.businesses[i])
                        \cup NonEmptyKeys(last_call.businesses[j])
                            \subseteq NonEmptyKeys(last_call.ret[u])

\* C12: in the list deduplicate returns no two records share a non-empty
\* company ID and no two records share a non-empty phone number.
C12_NoSharedIcoOrPhoneInTheResult ==
    Deduplicated =>
        \A u, v \in 1..Len(last_call.ret) :
            u # v => /\ ~SameIco(last_call.ret[u], last_call.ret[v])
                     /\ ~SamePhone(last_call.ret[u], last_call.ret[v])

\* the letter without its diacritic
Unaccent(c) ==
    IF c = "a'" THEN "a" ELSE IF c = "e'" THEN "e" ELSE IF c = "i'" THEN "i"
    ELSE IF c = "r^" THEN "r" ELSE c

\* the text with letter case and diacritics folded away
Folded(s) == [i \in 1..Len(Strip(Lower(s))) |-> Unaccent(Strip(Lower(s))[i])]

\* C13: the records {Kavárna Přátelství, Praha 1, Hybernská 7} and {kavarna
\* pratelstvi, Praha 1, Hybernska7} in one batch come out of deduplicate (at
\* threshold 0.9) as one merged record; and any two records whose names
\* differ only by letter case and diacritics and whose addresses are at
\* least 0.5 similar come out as one record.
C13_CaseAndDiacriticsVariantsMerge ==
    /\ (Deduplicated /\ last_call.businesses = <<LeadKavarna, LeadKavarnaPlain>>)
          => Len(last_call.ret) = 1
    /\ (/\ Deduplicated
        /\ Len(last_call.businesses) = 2
        /\ last_call.businesses[1]["business_name"] # <<>>
        /\ Folded(last_call.businesses[1]["business_name"])
              = Folded(last_call.businesses[2]["business_name"])
        /\ RatioAtLeast(Strip(Lower(last_call.businesses[1]["address"])),
                        Strip(Lower(last_call.businesses[2]["address"])), 1, 2))
          => Len(last_call.ret) = 1

\* C14: for two records and a field that is non-empty on exactly one side,
\* _merge_duplicates gives the field the value of the side that has it, in
\* whichever order the two records are passed and whichever is the base.
C14_MergeFillsFromEitherSide ==
    last_call.op = "_merge_duplicates" =>
        LET a == last_call.business1
            b == last_call.business2
            filled(merged) ==
                /\ merged # TypeError
                /\ \A k \in NonEmptyKeys(a) \ NonEmptyKeys(b) : Get(merged, k, <<>>) = a[k]
                /\ \A k \in NonEmptyKeys(b) \ NonEmptyKeys(a) : Get(merged, k, <<>>) = b[k]
        IN  /\ filled(last_call.ret)
            /\ filled(_merge_duplicates(b, a))

\* C14 witness: the record passed first has an e-mail and fewer non-empty
\* fields than the second, which has none: the second is the base and the
\* merged record has the e-mail of the first.
C14_Witness ==
    /\ last_call.op = "_merge_duplicates"
    /\ GetTruthy(last_call.business1, "email")
    /\ ~GetTruthy(last_call.business2, "email")
    /\ Completeness(last_call.business1) < Completeness(last_call.business2)
    /\ last_call.ret # TypeError
    /\ last_call.ret["email"] = last_call.business1["email"]
    /\ last_call.ret["phone"] = last_call.business2["phone"]

-----------------------------------------------------------------------------
(* processors/prioritizer.py: LeadPrioritizer                              *)
(* A notes text is the sequence of its '; '-separated notes ('' is <<>>).  *)

PRIORITY_IMMEDIATE == "IMMEDIATE OPPORTUNITY"
PRIORITY_HIGH == "HIGH PRIORITY"
PRIORITY_MEDIUM == "MEDIUM PRIORITY"
PRIORITY_LOW == "LOW PRIORITY"

\* the default scoring weights
DefaultScoring ==
    [no_website |-> 100, poor_website |-> 75, no_email |-> 50, no_social |-> 25]

\* pat in s
Contains(s, pat) ==
    \E i \in 1..(Len(s) - Len(pat) + 1) : SubSeq(s, i, i + Len(pat) - 1) = pat

\* _add_note(existing_notes, new_note)
_add_note(existing_notes, new_note) ==
    IF Truthy(existing_notes) THEN Append(existing_notes, new_note)
    ELSE <<new_note>>

\* the rules of _calculate_priority_score, in the order of evaluation: whether
\* the rule applies, what it adds and the note it leaves ("" for no note)
ScoringRules(scoring, business) ==
    LET website == Get(business, "website", <<>>)
        website_quality == Get(business, "website_quality_score", PyNum(0))
        rating == Get(business, "google_rating", PyNone)
        rule(applies, delta, note) ==
            [applies |-> applies, delta |-> delta, note |-> note]
    IN  << rule(~Truthy(website), scoring.no_website,
                "No website - High opportunity"),
           rule(Truthy(website) /\ website_quality.value < 50,
                scoring.poor_website, "Poor website quality"),
           rule(~Truthy(Get(business, "email", <<>>)), scoring.no_email,
                "No email found"),
           rule(/\ ~Truthy(Get(business, "instagram", <<>>))
                /\ ~Truthy(Get(business, "facebook", <<>>)),
                scoring.no_social, "No social media"),
           rule(rating # PyNone /\ rating.value < 35, 0 - 10, "Low Google rating"),
           rule(rating = PyNone, 20, "No Google reviews"),
           rule(Truthy(website) /\ Contains(website, <<".", "c", "z">>), 5, "") >>

\* website_quality < 50 or rating < 3.5 is evaluated on a value that is no
\* number: TypeError
ScoringRaises(business) ==
    \/ /\ Truthy(Get(business, "website", <<>>))
       /\ Get(business, "website_quality_score", PyNum(0)).type # "number"
    \/ Get(business, "google_rating", PyNone).type = "str"

RECURSIVE SumOfDeltas(_)
SumOfDeltas(rules) ==
    IF rules = <<>> THEN 0
    ELSE (IF Head(rules).applies THEN Head(rules).delta ELSE 0)
             + SumOfDeltas(Tail(rules))

RECURSIVE NotesAfter(_, _)
NotesAfter(notes, rules) ==
    IF rules = <<>> THEN notes
    ELSE NotesAfter(IF Head(rules).applies /\ Head(rules).note # ""
                    THEN _add_note(notes, Head(rules).note) ELSE notes,
                    Tail(rules))

Max(a, b) == IF a > b THEN a ELSE b

\* the record after the rules have left their notes in it
Noted(business, rules) ==
    LET noting == \E i \in 1..Len(rules) : rules[i].applies /\ rules[i].note # "" IN
    [k \in DOMAIN business \cup (IF noting THEN {"notes"} ELSE {}) |->
        IF k = "notes" /\ noting
        THEN NotesAfter(Get(business, "notes", <<>>), rules)
        ELSE business[k]]

\* _calculate_priority_score without its last step, the clamp
_calculate_priority_score_Unclamped(scoring, business) ==
    IF ScoringRaises(business) THEN TypeError
    ELSE LET rules == ScoringRules(scoring, business) IN
         [score |-> SumOfDeltas(rules), business |-> Noted(business, rules)]

\* _calculate_priority_score without the bonus of the .cz domain
_calculate_priority_score_NoDomainBonus(scoring, business) ==
    IF ScoringRaises(business) THEN TypeError
    ELSE LET rules == SubSeq(ScoringRules(scoring, business), 1, 6) IN
         [score |-> Max(0, Min(SumOfDeltas(rules), 200)),
          business |-> Noted(business, rules)]

\* _calculate_priority_score(business): the score returned and the record as
\* the call leaves it; TypeError when a comparison raises
_calculate_priority_score(scoring, business) ==
    IF ScoringRaises(business) THEN TypeError
    ELSE LET rules == ScoringRules(scoring, business) IN
         [score |-> Max(0, Min(SumOfDeltas(rules), 200)),
          business |-> Noted(business, rules)]

\* _get_priority_category(score)
_get_priority_category(score) ==
    IF score >= 90 THEN PRIORITY_IMMEDIATE
    ELSE IF score >= 75 THEN PRIORITY_HIGH
    ELSE IF score >= 50 THEN PRIORITY_MEDIUM
    ELSE PRIORITY_LOW

RECURSIVE ScoreAll(_, _)
\* the loop of score_leads: each record with priority_score and
\* priority_category added; <<TypeError>> when the scoring of a record raises
ScoreAll(scoring, batch) ==
    IF batch = <<>> THEN <<>>
    ELSE LET out == _calculate_priority_score(scoring, Head(batch))
             rest == ScoreAll(scoring, Tail(batch))
         IN  IF out = TypeError \/ rest = <<TypeError>> THEN <<TypeError>>
             ELSE <<[k \in DOMAIN out.business
                          \cup {"priority_score", "priority_category"} |->
                        IF k = "priority_score" THEN out.score
                        ELSE IF k = "priority_category"
                             THEN _get_priority_category(out.score)
                        ELSE out.business[k]]>> \o rest

RECURSIVE SortedByScore(_)
\* scored.sort(key=priority_score, reverse=True): descending and stable
SortedByScore(scored) ==
    IF scored = <<>> THEN <<>>
    ELSE LET top == CHOOSE i \in 1..Len(scored) :
                 \A j \in 1..Len(scored) :
                     \/ scored[i]["priority_score"] > scored[j]["priority_score"]
                     \/ /\ scored[i]["priority_score"] = scored[j]["priority_score"]
                        /\ i <= j
         IN  <<scored[top]>>
                 \o SortedByScore(SubSeq(scored, 1, top - 1)
                                      \o SubSeq(scored, top + 1, Len(scored)))

\* LeadPrioritizer(scoring).score_leads(businesses)
score_leads(scoring, batch) ==
    LET scored == ScoreAll(scoring, batch) IN
    IF scored = <<TypeError>>
    THEN [raised |-> TRUE, scored |-> <<>>]
    ELSE [raised |-> FALSE, scored |-> SortedByScore(scored)]

-----------------------------------------------------------------------------
(* Scoring of leads.                                                       *)

\* stands for a key the dict does not have
Absent == [type |-> "absent", value |-> 0]

WebsiteCz == <<"x", ".", "c", "z">>
WebsiteCom == <<"x", ".", "c", "o", "m">>

\* a record as it reaches score_leads
ScoredInput(website, website_quality_score, email, instagram, facebook, google_rating, notes) ==
    [k \in {"website", "email", "instagram", "facebook", "notes"}
            \cup (IF website_quality_score = Absent THEN {}
                  ELSE {"website_quality_score"})
            \cup (IF google_rating = Absent THEN {} ELSE {"google_rating"}) |->
        CASE k = "website" -> website
          [] k = "website_quality_score" -> website_quality_score
          [] k = "email" -> email
          [] k = "instagram" -> instagram
          [] k = "facebook" -> facebook
          [] k = "google_rating" -> google_rating
          [] k = "notes" -> notes]

ScoreRecords ==
    { ScoredInput(w, q, e, i, f, r, n) :
        w \in {<<>>, WebsiteCz, WebsiteCom},
        q \in {Absent, PyNum(49), PyNum(50), PyNone, PyStr},
        e \in {<<>>, <<"x">>},
        i \in {<<>>, <<"i">>},
        f \in {<<>>, <<"f">>},
        r \in {Absent, PyNone, PyNum(34), PyNum(35), PyNum(48), PyStr},
        n \in {<<>>, <<"Generated lead - needs verification">>} }

\* the records of the batches of more than one record
SortRecords ==
    { ScoredInput(<<>>, Absent, <<>>, <<>>, <<>>, PyNum(48), <<>>),
      ScoredInput(WebsiteCz, PyNum(50), <<"x">>, <<"i">>, <<>>, PyNum(48), <<>>),
      ScoredInput(WebsiteCom, PyNum(49), <<"x">>, <<>>, <<"f">>, PyNone, <<>>),
      ScoredInput(WebsiteCom, PyNum(50), <<>>, <<"i">>, <<>>, PyStr, <<>>) }

\* the weights of config['scoring']: the defaults, and two others
ScoringConfigs ==
    { DefaultScoring,
      [no_website |-> 300, poor_website |-> 90, no_email |-> 40, no_social |-> 10],
      [no_website |-> 0 - 100, poor_website |-> 75, no_email |-> 0, no_social |-> 25] }

\* the longest batch of several records handed to score_leads
MaxScoreBatch == 2

\* one call prioritizer.score_leads(batch)
ScoreLeads(scoring, batch) ==
    /\ last_call' = [op |-> "score_leads", scoring |-> scoring,
                     businesses |-> batch,
                     raised |-> score_leads(scoring, batch).raised,
                     ret |-> score_leads(scoring, batch).scored]
    /\ UNCHANGED <<businesses, business_seq, area_progress, now, utc_offset,
                   scraping_sessions, session_seq, pro>>

\* the result of a call depends on its arguments alone: a behaviour makes one
NextScore ==
    \/ /\ last_call = NoCall
       /\ \E scoring \in ScoringConfigs, business \in ScoreRecords :
             ScoreLeads(scoring, <<business>>)
    \/ /\ last_call = NoCall
       /\ \E scoring \in ScoringConfigs, n \in 2..MaxScoreBatch :
             \E batch \in [1..n -> SortRecords] : ScoreLeads(scoring, batch)

SpecScore == InitStore /\ [][NextScore]_vars

-----------------------------------------------------------------------------
(* Properties of the scoring.                                              *)

\* the call is a score_leads that returned
Scored == last_call.op = "score_leads" /\ ~last_call.raised

\* the call is a score_leads of one record that returned
ScoredOne == Scored /\ Len(last_call.businesses) = 1

\* C15: for every record and every integer configuration of the weights the
\* priority_score that score_leads assigns is within 0..200, and
\* priority_category is IMMEDIATE for a score >= 90, HIGH for 75..89, MEDIUM
\* for 50..74 and LOW below 50.
C15_ScoreBoundedAndCategoryExact ==
    Scored =>
        \A u \in 1..Len(last_call.ret) :
            LET score == last_call.ret[u]["priority_score"]
                category == last_call.ret[u]["priority_category"]
            IN  /\ 0 <= score /\ score <= 200
                /\ category = PRIORITY_IMMEDIATE <=> score >= 90
                /\ category = PRIORITY_HIGH <=> (75 <= score /\ score < 90)
                /\ category = PRIORITY_MEDIUM <=> (50 <= score /\ score < 75)
                /\ category = PRIORITY_LOW <=> score < 50

\* C15 witness: with a no_website weight of 300 a record without website got
\* the score 200, the upper end of the range, and the category IMMEDIATE.
C15_Witness ==
    /\ ScoredOne
    /\ last_call.scoring.no_website = 300
    /\ last_call.businesses[1]["website"] = <<>>
    /\ last_call.ret[1]["priority_score"] = 200
    /\ last_call.ret[1]["priority_category"] = PRIORITY_IMMEDIATE

\* the sum of the deltas of the scoring table that apply to the record
TableSum(scoring, business) ==
    LET has_website == Truthy(business["website"])
        quality == IF "website_quality_score" \in DOMAIN business
                   THEN business["website_quality_score"].value ELSE 0
        rated == "google_rating" \in DOMAIN business
                    /\ business["google_rating"] # PyNone
    IN    (IF ~has_website THEN scoring.no_website ELSE 0)
        + (IF has_website /\ quality < 50 THEN scoring.poor_website ELSE 0)
        + (IF ~Truthy(business["email"]) THEN scoring.no_email ELSE 0)
        + (IF ~Truthy(business["instagram"]) /\ ~Truthy(business["facebook"])
           THEN scoring.no_social ELSE 0)
        + (IF rated /\ business["google_rating"].value < 35 THEN 0 - 10 ELSE 0)
        + (IF ~rated THEN 20 ELSE 0)
        + (IF has_website /\ Contains(business["website"], <<".", "c", "z">>)
           THEN 5 ELSE 0)

C17_ScoringNeverRaises == last_call.op = "score_leads" => ~last_call.raised

\* the number of rules that contributed to the score of the record: one of
\* the two website rules, e-mail, social, one of the two rating rules, domain
ContributingRules(business) ==
    LET has_website == Truthy(business["website"])
        quality == IF "website_quality_score" \in DOMAIN business
                   THEN business["website_quality_score"].value ELSE 0
        rated == "google_rating" \in DOMAIN business
                    /\ business["google_rating"] # PyNone
        one(applies) == IF applies THEN 1 ELSE 0
    IN    one(~has_website \/ quality < 50)
        + one(~Truthy(business["email"]))
        + one(~Truthy(business["instagram"]) /\ ~Truthy(business["facebook"]))
        + one(~rated \/ business["google_rating"].value < 35)
        + one(has_website /\ Contains(business["website"], <<".", "c", "z">>))

\* C18: every rule that contributed to the score of a record appended one
\* note to its notes, after the notes the record had: the notes added by the
\* call are as many as the rules that contributed.
C18_OneNotePerContributingRule ==
    ScoredOne =>
        LET before == last_call.businesses[1]["notes"]
            after == last_call.ret[1]["notes"]
        IN  /\ Len(after) = Len(before)
                   + ContributingRules(last_call.businesses[1])
            /\ SubSeq(after, 1, Len(before)) = before

-----------------------------------------------------------------------------
(* utils/validators.py: normalize_phone                                    *)

Digits == {"0", "1", "2", "3", "4", "5", "6", "7", "8", "9"}

\* re.sub(r'\D', '', phone)
OnlyDigits(phone) == SelectSeq(phone, LAMBDA c : c \in Digits)

\* s.startswith(prefix)
StartsWith(s, prefix) ==
    Len(s) >= Len(prefix) /\ SubSeq(s, 1, Len(prefix)) = prefix

\* s[n:]
DropFirst(s, n) == SubSeq(s, n + 1, Len(s))

\* normalize_phone(phone)
normalize_phone(phone) ==
    IF ~Truthy(phone) THEN None
    ELSE LET d0 == OnlyDigits(phone)
             d1 == IF StartsWith(d0, <<"0", "0">>) THEN DropFirst(d0, 2) ELSE d0
             d2 == IF StartsWith(d1, <<"4", "2", "0">>) THEN DropFirst(d1, 3) ELSE d1
         IN  IF Len(d2) = 9 THEN <<"+", "4", "2", "0">> \o d2 ELSE None

-----------------------------------------------------------------------------
(* Normalization of names and phone numbers.                               *)

\* the characters of the names tried
NameAlphabet == {"C", "a", "f", "e", "&", "-"}

\* the longest name tried
MaxNameLen == 5

Names == UNION {[1..n -> NameAlphabet] : n \in 0..MaxNameLen}

\* national numbers: of 9 digits, of 8 and of 10
NationalNumbers ==
    { <<"6","0","1","2","3","4","5","6","7">>,
      <<"4","2","0","1","2","3","4","5","6">>,
      <<"0","0","1","2","3","4","5","6","7">>,
      <<"2","2","4","0","0","0","4","2","0">>,
      <<"6","0","1","2","3","4","5","6">>,
      <<"6","0","1","2","3","4","5","6","7","8">> }

\* nothing, +420 and 00420
PhonePrefixes == {<<>>, <<"+","4","2","0">>, <<"0","0","4","2","0">>}

PhoneSeparators == {<<>>, <<" ">>, <<"-">>}

RECURSIVE Grouped(_, _)
\* the digits in groups of three with the separator between the groups
Grouped(digits, separator) ==
    IF Len(digits) <= 3 THEN digits
    ELSE SubSeq(digits, 1, 3) \o separator \o Grouped(DropFirst(digits, 3), separator)

\* the number as it is written on a web page
Written(prefix, national, separator) ==
    IF prefix = <<>> THEN Grouped(national, separator)
    ELSE prefix \o separator \o Grouped(national, separator)

\* one call db.normalize_name(name)
NormalizeName(name) ==
    /\ last_call' = [op |-> "normalize_name", name |-> name,
                     ret |-> normalize_name(name)]
    /\ UNCHANGED <<businesses, business_seq, area_progress, now, utc_offset,
                   scraping_sessions, session_seq, pro>>

\* one call normalize_phone(phone) on a written number
NormalizePhone(prefix, national, separator) ==
    /\ last_call' = [op |-> "normalize_phone", prefix |-> prefix,
                     national |-> national,
                     phone |-> Written(prefix, national, separator),
                     ret |-> normalize_phone(Written(prefix, national, separator))]
    /\ UNCHANGED <<businesses, business_seq, area_progress, now, utc_offset,
                   scraping_sessions, session_seq, pro>>

\* the result of a call depends on its argument alone: a behaviour makes one
NextText ==
    \/ /\ last_call = NoCall
       /\ \E name \in Names : NormalizeName(name)
    \/ /\ last_call = NoCall
       /\ \E prefix \in PhonePrefixes, national \in NationalNumbers,
             separator \in PhoneSeparators :
                 NormalizePhone(prefix, national, separator)

SpecText == InitStore /\ [][NextText]_vars

\* C19: normalize_name is idempotent: normalize_name(normalize_name(x)) is
\* normalize_name(x) for every name x.
C19_NormalizeNameIdempotent ==
    last_call.op = "normalize_name" =>
        normalize_name(last_call.ret) = last_call.ret

\* C20: for every national number d of 9 digits the written forms d, +420d
\* and 00420d, with any separators, are normalized to +420d; a number whose
\* digits after the prefixes are not exactly 9 is normalized to no value.
C20_PhoneFormsMapToOneCanonicalNumber ==
    last_call.op = "normalize_phone" =>
        IF Len(last_call.national) = 9
        THEN last_call.ret = <<"+", "4", "2", "0">> \o last_call.national
        ELSE last_call.ret = None

-----------------------------------------------------------------------------
(* The fuzzy rule of the deduplicator at its thresholds: names one letter  *)
(* apart (similarity 0.9 at ten letters, 0.89 at nine) and addresses about *)
(* half alike.                                                             *)

NameBistroMax == <<"B","i","s","t","r","o"," ","M","a","x">>
NameBistroMix == <<"B","i","s","t","r","o"," ","M","i","x">>
NameBistroNix == <<"B","i","s","t","r","o"," ","N","i","x">>
NameCafeMila == <<"C","a","f","e"," ","M","i","l","a">>
NameCafeMima == <<"C","a","f","e"," ","M","i","m","a">>

LeadMax == ScrapedLead(NameBistroMax, AddrHybernska2, <<>>, <<>>, <<>>)
LeadMaxPraha1 == ScrapedLead(NameBistroMax, AddrPraha1, <<>>, <<>>, <<"x">>)
LeadNix == ScrapedLead(NameBistroNix, <<>>, <<>>, <<>>, <<"y">>)
LeadMix == ScrapedLead(NameBistroMix, AddrHybernska5, <<>>, Phone1, <<>>)
LeadMixBrno == ScrapedLead(NameBistroMix, AddrBrno, <<>>, <<>>, <<>>)
LeadMixHybernska7 == ScrapedLead(NameBistroMix, AddrHybernska7, <<>>, <<>>, <<>>)
LeadMila == ScrapedLead(NameCafeMila, AddrPraha1, <<>>, <<>>, <<>>)
LeadMima == ScrapedLead(NameCafeMima, AddrPraha1, <<>>, Phone2, <<>>)

FuzzyRecords ==
    {LeadMax, LeadMaxPraha1, LeadNix, LeadMix, LeadMixBrno, LeadMixHybernska7,
     LeadMila, LeadMima}

\* the longest batch handed to deduplicate in these runs
MaxFuzzyBatch == 3

FuzzyBatches == UNION {[1..n -> FuzzyRecords] : n \in 0..MaxFuzzyBatch}

\* one call deduplicator._find_fuzzy_duplicate(target, [candidate], 1)
FindFuzzyDuplicate(target, candidate) ==
    /\ last_call' = [op |-> "_find_fuzzy_duplicate", target |-> target,
                     candidate |-> candidate,
                     ret |-> _find_fuzzy_duplicate(target, <<candidate>>, 1)]
    /\ UNCHANGED <<businesses, business_seq, area_progress, now, utc_offset,
                   scraping_sessions, session_seq, pro>>

NextFuzzy ==
    \/ /\ last_call = NoCall
       /\ \E batch \in FuzzyBatches : Deduplicate(batch)
    \/ /\ last_call = NoCall
       /\ \E target, candidate \in FuzzyRecords :
             FindFuzzyDuplicate(target, candidate)

SpecFuzzy == InitStore /\ [][NextFuzzy]_vars

-----------------------------------------------------------------------------
(* Properties of the fuzzy rule and of repeated deduplication.             *)

NameOf(business) == Strip(Lower(Get(business, "business_name", <<>>)))

AddressOf(business) == Strip(Lower(Get(business, "address", <<>>)))

\* the name similarity of the two records is at least the threshold
NamesAlike(a, b) ==
    RatioAtLeast(NameOf(a), NameOf(b), similarity_threshold[1], similarity_threshold[2])

\* the two records are matched in one direction or the other
Matched(a, b) == MatchedAsDuplicates(a, b) \/ MatchedAsDuplicates(b, a)

\* C25: the fuzzy rule declares two records duplicates only if their name
\* similarity is at least the threshold 0.9 and, when both carry an address,
\* their address similarity is at least 0.5; with an address missing the
\* name match alone suffices. Two records below the name threshold that
\* share no company ID and no phone (and match no third record of the batch)
\* are neither merged nor dropped: both are in the output as they came.
C25_FuzzyRuleAtItsThresholds ==
    /\ last_call.op = "_find_fuzzy_duplicate" =>
          LET a == last_call.target
              b == last_call.candidate
          IN  (last_call.ret # 0) <=>
                  /\ NamesAlike(a, b)
                  /\ (AddressOf(a) # <<>> /\ AddressOf(b) # <<>>)
                        => RatioAtLeast(AddressOf(a), AddressOf(b), 1, 2)
    /\ Deduplicated =>
          LET batch == last_call.businesses
              alone(i) == \A k \in 1..Len(batch) :
                              k # i => ~Matched(batch[i], batch[k])
          IN  \A i, j \in 1..Len(batch) :
                  (/\ i < j
                   /\ ~NamesAlike(batch[i], batch[j])
                   /\ alone(i)
                   /\ alone(j))
                     => /\ \E u \in 1..Len(last_call.ret) : last_call.ret[u] = batch[i]
                        /\ \E v \in 1..Len(last_call.ret) : last_call.ret[v] = batch[j]

\* C25 witness: 'Cafe Mila' and 'Cafe Mima' at one address (name similarity
\* 0.89) come out of deduplicate as the two records they were.
C25_Witness ==
    /\ Deduplicated
    /\ last_call.businesses = <<LeadMila, LeadMima>>
    /\ ~NamesAlike(LeadMila, LeadMima)
    /\ AddressOf(LeadMila) = AddressOf(LeadMima)
    /\ last_call.ret = <<LeadMila, LeadMima>>

\* C26: deduplicate is idempotent: deduplicating the list it returned gives
\* that list again, with the same length and the same records.
C26_DeduplicateIdempotent ==
    Deduplicated =>
        /\ ~deduplicate(last_call.ret).raised
        /\ deduplicate(last_call.ret).unique_businesses = last_call.ret

\* the records of the list that carry the value under the key
Carrying(list, key, value) ==
    {i \in 1..Len(list) : Get(list[i], key, <<>>) = value}

\* C27: every input record contributes to at most one output record: a
\* phone number or an e-mail address is in no more records of the list
\* deduplicate returns than of the list it was given.
C27_NoRecordInTwoOutputRecords ==
    Deduplicated =>
        \A i \in 1..Len(last_call.businesses), key \in {"phone", "email"} :
            LET value == Get(last_call.businesses[i], key, <<>>) IN
            Truthy(value) =>
                Cardinality(Carrying(last_call.ret, key, value))
                    <= Cardinality(Carrying(last_call.businesses, key, value))

-----------------------------------------------------------------------------
(* Properties of add_business on empty strings and on place ids.           *)

\* the fields the Google Maps scraper fills with '' when it finds nothing
EmptyWhenNotFound == {"phone", "website", "address", "email"}

\* C28: add_business on a matching row never replaces a stored non-empty
\* field with an empty value: an incoming record with the empty string for
\* phone, website, address or email leaves the stored non-empty value of the
\* field as it was.
C28_EmptyStringKeepsTheStoredValue ==
    [][\A id \in 1..business_seq :
        MatchedAdd(id) =>
            \A f \in EmptyWhenNotFound :
                (Truthy(RowOf(businesses, id)[f]) /\ last_call'.business[f] = <<>>)
                    => RowOf(businesses', id)[f] = RowOf(businesses, id)[f]]_vars

\* C29: after add_business(r) has returned for a record r with a non-null
\* google_place_id p, the businesses table has a row whose google_place_id
\* is p (so records with distinct place ids are distinct rows and
\* business_exists finds each by its place id).
C29_PlaceIdOfAnAddedRecordIsStored ==
    (/\ last_call.op = "add_business"
     /\ last_call.ret # 0
     /\ Truthy(last_call.business["google_place_id"]))
        => \E r \in businesses :
               r.google_place_id = last_call.business["google_place_id"]

-----------------------------------------------------------------------------
(* Table scraping_sessions: start_session, end_session. A timestamp that   *)
(* is NULL is -1.                                                          *)

NullTimestamp == 0 - 1

\* the row start_session inserts
SessionRow(id, niche, location, timestamp) ==
    [id |-> id, niche |-> niche, location |-> location, area |-> None,
     keyword |-> None, started_at |-> timestamp, completed_at |-> NullTimestamp,
     businesses_found |-> 0, status |-> "running", notes |-> None]

\* start_session(niche, location): <<table', sequence', returned id>>
start_session(table, seq, niche, location, timestamp) ==
    <<table \cup {SessionRow(seq + 1, niche, location, timestamp)}, seq + 1, seq + 1>>

\* end_session(session_id, businesses_found, status, notes): the table after
\* the UPDATE ... WHERE id = ?
end_session(table, session_id, businesses_found, status, notes, timestamp) ==
    {IF r.id = session_id
     THEN [r EXCEPT !.completed_at = timestamp,
                    !.businesses_found = businesses_found,
                    !.status = status, !.notes = notes]
     ELSE r : r \in table}

-----------------------------------------------------------------------------
(* scrape_leads_PRO.main as a process: pro.pc is the statement it stands   *)
(* before. The run is --niche restaurants --location Praha over two areas  *)
(* and the first two keywords of the niche.                                *)

\* config['niches'], as far as the runs read it
ConfigNiches == {NicheRestaurants, NicheCafes}

\* get_search_areas(args.location)
search_areas == <<AreaPraha1, AreaPraha2>>

\* niche_config['keywords_cz'][:2]
keywords == <<KwRestaurace, KwBistro>>

\* the passes of "for area in search_areas: for keyword in keywords[:2]"
Searches ==
    [k \in 1..(Len(search_areas) * Len(keywords)) |->
        <<search_areas[((k - 1) \div Len(keywords)) + 1],
          keywords[((k - 1) % Len(keywords)) + 1]>>]

\* the pass is the last of its area
LastOfArea(k) == k % Len(keywords) = 0

\* --max-results of the runs
MaxResultsChoices == {1, 2}

\* the statements inside "try:", and those of them that can raise an
\* exception other than KeyboardInterrupt: the constructors of the scrapers,
\* the calls of the store, the website scraper, the prioritizer
TryStages ==
    {"init", "start_session", "begin_search", "search", "unique", "websites",
     "prioritize", "export", "end_session", "cleanup", "summary"}

RaisingStages ==
    {"init", "start_session", "search", "websites", "prioritize", "end_session"}

Returned(code) == [kind |-> "return", code |-> code]

Raised(exception) == [kind |-> "raise", exception |-> exception]

\* main has returned or raised: the session it started, if any (0: none),
\* and how it ended
Exited(session_id, result) ==
    [pc |-> "exited", session_id |-> session_id, result |-> result]

\* parse_args() to the validation of the niche (lines 126-145), then the
\* dashboard and the banner (lines 147-164)
ProStart(niche, force_rescrape, skip_websites, max_results) ==
    /\ pro.pc = "off"
    /\ pro' = IF niche \notin ConfigNiches
              THEN Exited(0, Returned(1))
              ELSE [pc |-> "init", niche |-> niche, location |-> CityPraha,
                    force_rescrape |-> force_rescrape,
                    skip_websites |-> skip_websites, max_results |-> max_results,
                    session_id |-> 0, bound |-> FALSE, all_businesses |-> <<>>,
                    k |-> 1, unique_businesses |-> <<>>, scored |-> FALSE,
                    db_open |-> TRUE]
    /\ UNCHANGED <<businesses, business_seq, area_progress, now, utc_offset,
                   last_call, scraping_sessions, session_seq>>

\* lines 167-186: the scrapers, the prioritizer and the exporter are built
ProInitialise ==
    /\ pro.pc = "init"
    /\ pro' = [pro EXCEPT !.pc = "start_session"]
    /\ UNCHANGED <<businesses, business_seq, area_progress, now, utc_offset,
                   last_call, scraping_sessions, session_seq>>

\* line 189: session_id = db.start_session(args.niche, args.location)
ProStartSession ==
    LET out == start_session(scraping_sessions, session_seq, pro.niche,
                             pro.location, CURRENT_TIMESTAMP) IN
    /\ pro.pc = "start_session"
    /\ scraping_sessions' = out[1]
    /\ session_seq' = out[2]
    /\ pro' = [pro EXCEPT !.pc = "begin_search", !.session_id = out[3]]
    /\ UNCHANGED <<businesses, business_seq, area_progress, now, utc_offset,
                   last_call>>

\* lines 192-199: all_businesses = [] and the counters
ProBeginSearch ==
    /\ pro.pc = "begin_search"
    /\ pro' = [pro EXCEPT !.pc = "search", !.bound = TRUE, !.all_businesses = <<>>,
                          !.k = 1]
    /\ UNCHANGED <<businesses, business_seq, area_progress, now, utc_offset,
                   last_call, scraping_sessions, session_seq>>

\* where the loops stand after pass k: `broke` is the "break" of the keyword
\* loop (line 249), which the check of the area loop (line 260) repeats
AfterPass(k, broke, collected, max_results) ==
    IF broke \/ (LastOfArea(k) /\ collected >= max_results) \/ k = Len(Searches)
    THEN [pc |-> "unique", k |-> k]
    ELSE [pc |-> "search", k |-> k + 1]

\* lines 202-263: one pass of the loops. The records the pass appended to
\* all_businesses are those add_business took (inserts and updates)
ProSearch(found, outcome) ==
    /\ pro.pc = "search"
    /\ ProIteration(pro.niche, pro.location, Searches[pro.k][1], Searches[pro.k][2],
                    pro.force_rescrape, found, outcome)
    /\ LET taken == (business_seq' - business_seq)
                        + (SumUpdates(businesses') - SumUpdates(businesses))
           collected == pro.all_businesses
                            \o SubSeq(Tagged(found, pro.niche, pro.location), 1, taken)
           broke == /\ last_call'.marked
                    /\ Len(collected) >= pro.max_results
           after == AfterPass(pro.k, broke, Len(collected), pro.max_results)
       IN  pro' = IF outcome = "interrupted"
                  THEN [pro EXCEPT !.pc = "on_interrupt", !.all_businesses = collected]
                  ELSE [pro EXCEPT !.pc = after.pc, !.k = after.k,
                                   !.all_businesses = collected]
    /\ UNCHANGED <<scraping_sessions, session_seq>>

RECURSIVE Unique(_, _)
\* lines 266-272: the first record of every (lower-cased name, address)
Unique(list, seen_ids) ==
    IF list = <<>> THEN <<>>
    ELSE LET bid == <<Lower(Head(list)["business_name"]), Head(list)["address"]>> IN
         IF bid \in seen_ids THEN Unique(Tail(list), seen_ids)
         ELSE <<Head(list)>> \o Unique(Tail(list), seen_ids \cup {bid})

\* lines 266-283: the unique businesses; with none, the session ends as
\* 'no_results' and main returns 1
ProUnique ==
    LET unique_businesses ==
            SubSeq(Unique(pro.all_businesses, {}), 1,
                   Min(pro.max_results, Len(Unique(pro.all_businesses, {}))))
    IN  /\ pro.pc = "unique"
        /\ IF unique_businesses = <<>>
           THEN /\ scraping_sessions' =
                      end_session(scraping_sessions, pro.session_id, 0,
                                  "no_results", None, CURRENT_TIMESTAMP)
                /\ pro' = Exited(pro.session_id, Returned(1))
           ELSE /\ pro' = [pro EXCEPT !.pc = "websites",
                                      !.unique_businesses = unique_businesses]
                /\ UNCHANGED scraping_sessions
        /\ UNCHANGED <<businesses, business_seq, area_progress, now, utc_offset,
                       last_call, session_seq>>

\* lines 285-296: unless --skip-websites, and when a business has a website
\* and no e-mail, website_scraper.scrape_websites: a business with a website
\* gets the e-mail its site shows, if it shows one
ProWebsites(email) ==
    LET needs(b) == Truthy(b["website"]) /\ ~Truthy(b["email"])
        scrape == /\ ~pro.skip_websites
                  /\ \E i \in 1..Len(pro.unique_businesses) :
                        needs(pro.unique_businesses[i])
    IN  /\ pro.pc = "websites"
        /\ scrape \/ email = <<>>
        /\ pro' = [pro EXCEPT
                     !.pc = "prioritize",
                     !.unique_businesses =
                         [i \in 1..Len(pro.unique_businesses) |->
                             IF scrape /\ needs(pro.unique_businesses[i])
                                /\ email # <<>>
                             THEN [pro.unique_businesses[i] EXCEPT !["email"] = email]
                             ELSE pro.unique_businesses[i]]]
        /\ UNCHANGED <<businesses, business_seq, area_progress, now, utc_offset,
                       last_call, scraping_sessions, session_seq>>

\* a prioritize step after which the scored batch is written to the store
ProPrioritize_ThenPersist ==
    /\ pro.pc = "prioritize"
    /\ pro' = [pro EXCEPT !.pc = "export", !.scored = TRUE]
    /\ \E res \in AddAll(businesses, business_seq, pro.unique_businesses) :
          /\ businesses' = res[1]
          /\ business_seq' = res[2]
    /\ UNCHANGED <<area_progress, now, utc_offset, last_call, scraping_sessions,
                   session_seq>>

\* lines 298-309: unique_businesses = prioritizer.score_leads(...); the run
\* keeps that the records are scored (their scores are those of score_leads)
ProPrioritize ==
    /\ pro.pc = "prioritize"
    /\ pro' = [pro EXCEPT !.pc = "export", !.scored = TRUE]
    /\ UNCHANGED <<businesses, business_seq, area_progress, now, utc_offset,
                   last_call, scraping_sessions, session_seq>>

\* lines 311-317: exporter.export(unique_businesses, ...)
ProExport ==
    /\ pro.pc = "export"
    /\ pro' = [pro EXCEPT !.pc = "end_session"]
    /\ UNCHANGED <<businesses, business_seq, area_progress, now, utc_offset,
                   last_call, scraping_sessions, session_seq>>

\* line 320: db.end_session(session_id, len(unique_businesses), 'completed')
ProEndSession ==
    /\ pro.pc = "end_session"
    /\ scraping_sessions' =
          end_session(scraping_sessions, pro.session_id, Len(pro.unique_businesses),
                      "completed", None, CURRENT_TIMESTAMP)
    /\ pro' = [pro EXCEPT !.pc = "cleanup"]
    /\ UNCHANGED <<businesses, business_seq, area_progress, now, utc_offset,
                   last_call, session_seq>>

\* lines 322-325: google_scraper.close(); website_scraper.close(); db.close()
ProCleanup ==
    /\ pro.pc = "cleanup"
    /\ pro' = [pro EXCEPT !.pc = "summary", !.db_open = FALSE]
    /\ UNCHANGED <<businesses, business_seq, area_progress, now, utc_offset,
                   last_call, scraping_sessions, session_seq>>

\* lines 327-351: the summary is printed; return 0
ProSummary ==
    /\ pro.pc = "summary"
    /\ pro' = Exited(pro.session_id, Returned(0))
    /\ UNCHANGED <<businesses, business_seq, area_progress, now, utc_offset,
                   last_call, scraping_sessions, session_seq>>

\* Ctrl-C while a statement of the try block runs
ProInterrupt ==
    /\ pro.pc \in TryStages
    /\ pro' = [pro EXCEPT !.pc = "on_interrupt"]
    /\ UNCHANGED <<businesses, business_seq, area_progress, now, utc_offset,
                   last_call, scraping_sessions, session_seq>>

\* a statement of the try block, outside the try of the loop body, raises
ProRaise ==
    /\ pro.pc \in RaisingStages
    /\ pro' = [pro EXCEPT !.pc = "on_error"]
    /\ UNCHANGED <<businesses, business_seq, area_progress, now, utc_offset,
                   last_call, scraping_sessions, session_seq>>

\* what evaluating the handler's call of end_session raises, if it does:
\* a local that was never assigned, or the connection that db.close() closed
HandlerRaises(locals) ==
    IF pro.session_id = 0 \/ ("all_businesses" \in locals /\ ~pro.bound)
    THEN Raised("UnboundLocalError")
    ELSE IF ~pro.db_open THEN Raised("sqlite3.ProgrammingError")
    ELSE Returned(0)

\* lines 353-356: except KeyboardInterrupt
ProOnInterrupt ==
    LET raises == HandlerRaises({"session_id", "all_businesses"}) IN
    /\ pro.pc = "on_interrupt"
    /\ IF raises.kind = "raise"
       THEN /\ pro' = Exited(pro.session_id, raises)
            /\ UNCHANGED scraping_sessions
       ELSE /\ scraping_sessions' =
                  end_session(scraping_sessions, pro.session_id,
                              Len(pro.all_businesses), "interrupted", None,
                              CURRENT_TIMESTAMP)
            /\ pro' = Exited(pro.session_id, Returned(130))
    /\ UNCHANGED <<businesses, business_seq, area_progress, now, utc_offset,
                   last_call, session_seq>>

\* lines 357-361: except Exception as e
ProOnError ==
    LET raises == HandlerRaises({"session_id"}) IN
    /\ pro.pc = "on_error"
    /\ IF raises.kind = "raise"
       THEN /\ pro' = Exited(pro.session_id, raises)
            /\ UNCHANGED scraping_sessions
       ELSE /\ scraping_sessions' =
                  end_session(scraping_sessions, pro.session_id, 0, "error",
                              <<"e">>, CURRENT_TIMESTAMP)
            /\ pro' = Exited(pro.session_id, Returned(1))
    /\ UNCHANGED <<businesses, business_seq, area_progress, now, utc_offset,
                   last_call, session_seq>>

-----------------------------------------------------------------------------
(* Specification of one run of scrape_leads_PRO.main on a store that       *)
(* starts empty.                                                           *)

\* what a search returns in these runs
ProRecords ==
    { Business(NameCafeSlavia, AddrHybernska2, None, ContactFull),
      Business(NameSLAVIA,     AddrPraha1,     None, ContactPart) }

ProOutcomes == {"ok", "search_failed", "store_failed", "interrupted"}

NextPro ==
    \/ \E niche \in {NicheRestaurants, <<"x">>}, force_rescrape \in BOOLEAN,
          skip_websites \in BOOLEAN, max_results \in MaxResultsChoices :
          ProStart(niche, force_rescrape, skip_websites, max_results)
    \/ ProInitialise
    \/ ProStartSession
    \/ ProBeginSearch
    \/ \E found \in Batches(ProRecords), outcome \in ProOutcomes :
          ProSearch(found, outcome)
    \/ ProUnique
    \/ \E email \in {<<>>, <<"w">>} : ProWebsites(email)
    \/ ProPrioritize
    \/ ProExport
    \/ ProEndSession
    \/ ProCleanup
    \/ ProSummary
    \/ ProInterrupt
    \/ ProRaise
    \/ ProOnInterrupt
    \/ ProOnError

SpecPro == InitStore /\ [][NextPro]_vars

-----------------------------------------------------------------------------
(* Properties of the run of scrape_leads_PRO.main.                         *)

\* the step is the pass of the search loop the run stands before
SearchPass ==
    /\ pro.pc = "search"
    /\ last_call'.op = "pro_iteration"
    /\ last_call'.key = <<pro.niche, pro.location, Searches[pro.k][1],
                          Searches[pro.k][2]>>

\* C22: persistence failure is fatal to the run: when a call of the store
\* (business_exists, add_business, mark_area_scraped) raises during a pass,
\* the exception propagates and the run stops; the orchestrator does not
\* swallow it and go on with the next area or keyword.
C22_StoreFailureStopsTheRun ==
    [][(SearchPass /\ last_call'.outcome = "store_failed")
          => pro'.pc = "on_error"]_vars

\* C23: a scraping_sessions row is append-only: no row is deleted, and once
\* its completion fields are set (its status is no longer 'running') the
\* row is never written again.
C23_SessionEndsAtMostOnce ==
    [][\A r \in scraping_sessions :
          /\ \E r2 \in scraping_sessions' : r2.id = r.id
          /\ r.status # "running" => r \in scraping_sessions']_vars

\* the statements of main that follow the scoring of the batch
ScoredStages == {"export", "end_session", "cleanup", "summary"}

C30_EveryExitEndsTheSession ==
    /\ pro.pc \in {"on_interrupt", "on_error"} => pro.session_id # 0
    /\ pro.pc = "exited" =>
          /\ pro.result.kind = "return"
          /\ \A r \in scraping_sessions :
                r.id = pro.session_id => r.status # "running"

-----------------------------------------------------------------------------
(* The entry points without a store: scrape_leads_PRODUCTION.main and       *)
(* main.main. A run is one step: it leaves in last_call what the run       *)
(* reports, its exit code, the message it prints last and the businesses   *)
(* it exported.                                                            *)

\* deduplicator.remove_invalid_entries(businesses): a business stays when it
\* has a name and a phone, an e-mail, a website or an address
remove_invalid_entries(batch) ==
    LET valid(b) == /\ GetTruthy(b, "business_name")
                    /\ \/ GetTruthy(b, "phone")
                       \/ GetTruthy(b, "email")
                       \/ GetTruthy(b, "website")
                       \/ GetTruthy(b, "address")
    IN  SelectSeq(batch, valid)

\* website_scraper.scrape_websites(businesses) as the entry points call it:
\* only when some business has a website; a business with a website and no
\* e-mail gets the e-mail its site shows, if it shows one
scrape_websites(batch, skip_websites, email) ==
    LET needs(b) == GetTruthy(b, "website") /\ ~GetTruthy(b, "email") IN
    IF skip_websites \/ email = <<>> THEN batch
    ELSE [i \in 1..Len(batch) |->
             IF needs(batch[i])
             THEN [key \in DOMAIN batch[i] \cup {"email"} |->
                      IF key = "email" THEN email ELSE batch[i][key]]
             ELSE batch[i]]

\* scrape_leads_PRODUCTION.py line 228: the batch is deduplicated after an
\* area once it holds more than this many records
DedupAbove == 200

\* list[:n]
FirstN(list, n) == SubSeq(list, 1, IF n < Len(list) THEN n ELSE Len(list))

\* what a run reports
EntryReport(op, raised, exit_code, message, exported) ==
    [op |-> op, raised |-> raised, exit_code |-> exit_code,
     message |-> message, businesses |-> exported]

\* scrape_leads_PRODUCTION.py lines 191-229: one pass of the loop over the
\* areas; area_found holds what the searches of the area with the first two
\* keywords return (a search that raises counts as failed and adds nothing);
\* the runs modelled stay at or under DedupAbove records, where the
\* deduplication after an area (lines 228-229) does not run
AfterArea(all_businesses, area_found, max_results) ==
    LET area_businesses ==
            IF Len(all_businesses) >= max_results THEN area_found[1]
            ELSE area_found[1] \o area_found[2]
    IN  all_businesses \o area_businesses

\* the end of a run that was neither interrupted nor failed before: the
\* scored batch is exported, the summary printed, and the run returns 0,
\* unless score_leads raised
Finish(op, scored) ==
    IF scored.raised THEN EntryReport(op, TRUE, 1, "error", <<>>)
    ELSE EntryReport(op, FALSE, 0, "complete", scored.scored)

RECURSIVE Extend(_, _)
Extend(batches, n) ==
    IF n = 0 THEN <<>> ELSE Extend(batches, n - 1) \o batches[n]

\* one run of scrape_leads_PRODUCTION.main, lines 159-332: collect over the
\* two areas, leaving the loop once max_results are there (232-234), final
\* deduplication cut to max_results (240), return 1 when nothing is left
\* (245-251), websites (254-268), remove_invalid_entries (272), score_leads
\* (277), export and return 0 (290-323); Ctrl-C returns 130 (325-327), any
\* other exception returns 1 (328-332)
RunProduction(found, max_results, skip_websites, email, failure) ==
    LET op == "scrape_leads_PRODUCTION" IN
    /\ Len(found[1][1]) + Len(found[1][2]) + Len(found[2][1])
          + Len(found[2][2]) <= DedupAbove
    /\ \E first \in {AfterArea(<<>>, found[1], max_results)} :
       \E collected \in {IF Len(first) >= max_results THEN first
                          ELSE AfterArea(first, found[2], max_results)} :
       \E unique \in {deduplicate(collected)} :
       \E all_businesses \in {FirstN(unique.unique_businesses, max_results)} :
       \E with_websites \in {scrape_websites(all_businesses, skip_websites, email)} :
       \E valid \in {remove_invalid_entries(with_websites)} :
       \E scored \in {score_leads(DefaultScoring, valid)} :
          last_call' =
              IF failure = "interrupt"
              THEN EntryReport(op, FALSE, 130, "interrupted", <<>>)
              ELSE IF failure = "init" \/ unique.raised
              THEN EntryReport(op, TRUE, 1, "error", <<>>)
              ELSE IF all_businesses = <<>>
              THEN EntryReport(op, FALSE, 1, "no_businesses", <<>>)
              ELSE Finish(op, scored)
    /\ UNCHANGED <<businesses, business_seq, area_progress, now, utc_offset,
                   scraping_sessions, session_seq, pro>>

\* one run of main.main, lines 171-283: enriched[n] holds the businesses of
\* niche n after the registry search and the enrichment; websites per niche
\* (230-242), deduplicate and remove_invalid_entries (246-247), score_leads
\* (252), export and return 0 (258-275); Ctrl-C returns 130 (277-279), any
\* other exception returns 1 (280-283)
RunMain(enriched, skip_websites, email, failure) ==
    LET op == "main" IN
    /\ \E all_businesses \in
             {Extend([n \in 1..Len(enriched) |->
                         scrape_websites(enriched[n], skip_websites, email)],
                     Len(enriched))} :
       \E unique \in {deduplicate(all_businesses)} :
       \E valid \in {remove_invalid_entries(unique.unique_businesses)} :
       \E scored \in {score_leads(DefaultScoring, valid)} :
          last_call' =
              IF failure = "interrupt"
              THEN EntryReport(op, FALSE, 130, "interrupted", <<>>)
              ELSE IF failure = "init" \/ unique.raised
              THEN EntryReport(op, TRUE, 1, "error", <<>>)
              ELSE Finish(op, scored)
    /\ UNCHANGED <<businesses, business_seq, area_progress, now, utc_offset,
                   scraping_sessions, session_seq, pro>>

\* a card of Google Maps that shows a name and nothing else
LeadNameOnly == ScrapedLead(NameBeta, <<>>, <<>>, <<>>, <<>>)
LeadWithWebsite ==
    ScrapedLead(NameGama, AddrBrno, <<>>, <<>>, <<>>) @@ [website |-> <<"w">>]

EntryRecords == {LeadAlfa, LeadNameOnly, LeadWithWebsite}

\* what one search returns: nothing, or one record
EntryFound == {<<>>} \cup {<<r>> : r \in EntryRecords}

EntryFailures == {"none", "init", "interrupt"}

\* the most records the searches of one run return together
MaxEntryBatch == 2

\* a behaviour is one run of one of the three entry points
NextEntry ==
    \/ /\ last_call = NoCall
       /\ pro.pc = "off"
       /\ \E found \in [1..2 -> [1..2 -> EntryFound]],
             max_results \in MaxResultsChoices, skip_websites \in BOOLEAN,
             email \in {<<>>, <<"w">>}, failure \in EntryFailures :
             /\ Len(Extend(found[1], 2) \o Extend(found[2], 2)) <= MaxEntryBatch
             /\ RunProduction(found, max_results, skip_websites, email, failure)
    \/ /\ last_call = NoCall
       /\ pro.pc = "off"
       /\ \E n \in 1..2 :
             \E enriched \in [1..n -> EntryFound],
                skip_websites \in BOOLEAN, email \in {<<>>, <<"w">>},
                failure \in EntryFailures :
                /\ Len(Extend(enriched, n)) <= MaxEntryBatch
                /\ RunMain(enriched, skip_websites, email, failure)
    \/ /\ last_call.op \notin {"scrape_leads_PRODUCTION", "main"}
       /\ NextPro

SpecEntry == InitStore /\ [][NextEntry]_vars

\* C21: a run that ends with zero valid businesses after filtering is
\* reported as a soft failure, with a non-zero exit code or the session
\* status 'no_results', and not as a hard exception is; this holds for
\* scrape_leads_PRO, scrape_leads_PRODUCTION and main.
C21_NoValidBusinessesIsASoftFailure ==
    /\ (/\ last_call.op \in {"scrape_leads_PRODUCTION", "main"}
        /\ ~last_call.raised
        /\ last_call.message # "interrupted"
        /\ last_call.businesses = <<>>)
          => (last_call.exit_code # 0 /\ last_call.message # "error")
    /\ (pro.pc = "exited" /\ pro.result = Returned(0))
          => \E r \in scraping_sessions :
                /\ r.id = pro.session_id
                /\ r.status = "completed"
                /\ r.businesses_found > 0
    /\ \A r \in scraping_sessions :
          r.status = "no_results" => pro.result = Returned(1)

====
